---- MODULE Spec2Model ----
(***************************************************************************)
(* A model of YonSeWeather (src/main.py, and the legacy script             *)
(* src/YonSeWeather.py whose coercion and parsing code is the same):       *)
(* payload coercion, the current-weather parser, the cache facade, the     *)
(* fetch functions and the control flow of main.                           *)
(*                                                                         *)
(* JSON values are records [k, n, s]: k is the kind, n the number (an      *)
(* integer; a float is held in tenths, so 15.0 is F(150)), s the text as a *)
(* sequence of one-character strings.  Cyrillic text of the source is      *)
(* written in Latin letters.                                               *)
(***************************************************************************)
EXTENDS Integers, Sequences, FiniteSets, TLC

VARIABLES
    arg, blk, dflt, cop, cres,            \* coercion layer: input, block shape, default, function applied, result
    payload, edits, presult,              \* parser: payload under construction, edits made, result of the parse
    http, msg,                            \* a response's HTTP status code and the payload's "message"
    opts,                                 \* main: the command-line flags of the run
    pc,                                   \* main: the statement the run is at
    clock,                                \* wall-clock time, in minutes
    cache,                                \* the cache directory: cache key -> file
    net,                                  \* the requests the run has issued, in order
    out,                                  \* what the run has printed, in order
    status,                               \* how the run ended
    fetched,                              \* main: payload, the result of fetch_weather
    snapshot,                             \* main: snapshot
    shown,                                \* the snapshot format_weather was given
    enrich,                               \* how the two enrichment steps of the run ended
    raised,                               \* the exception that left main's try block, and the statement it left
    calls,                                \* calls of the fetch functions made so far
    forecast_items,                       \* formatting: the forecast items (or the snapshot) to format
    color,                                \* formatting: use_color, the colour flag
    rows                                  \* formatting: the rows of the text a formatter returned

coerceVars == <<arg, blk, dflt, cop, cres, http, msg>>
parseVars == <<payload, edits, presult>>
runVars == <<opts, pc, clock, cache, net, out, status, fetched, snapshot, shown, enrich,
          raised, calls>>
formatVars == <<forecast_items, color, rows>>
vars == <<arg, blk, dflt, cop, cres, http, msg, payload, edits, presult,
          opts, pc, clock, cache, net, out, status, fetched, snapshot, shown, enrich,
          raised, calls, forecast_items, color, rows>>

(***************************************************************************)
(* Values                                                                  *)
(***************************************************************************)
Leaf(kind, num, text) == [k |-> kind, n |-> num, s |-> text]
Absent == Leaf("absent", 0, <<>>)        \* the key is not in the mapping
Null == Leaf("null", 0, <<>>)            \* None
I(num) == Leaf("int", num, <<>>)
F(tenths) == Leaf("float", tenths, <<>>)
B(bit) == Leaf("bool", bit, <<>>)
S(text) == Leaf("str", 0, text)
Inf == Leaf("inf", 0, <<>>)              \* float('inf'): json accepts Infinity
NaN == Leaf("nan", 0, <<>>)              \* float('nan'): json accepts NaN
Huge == Leaf("huge", 0, <<>>)            \* an integer above the float range, 10**400
ListV == Leaf("list", 0, <<>>)           \* a non-empty list, [1]
DictV == Leaf("dict", 0, <<>>)           \* a non-empty mapping, {"a": 1}

Ok(v) == [st |-> "ok", err |-> "", val |-> v]
Raise(e) == [st |-> "raise", err |-> e, val |-> Null]

\* The messages of WeatherError, by the place that raises it.
WeatherErrors == {"MissingField", "InvalidValue", "MalformedResponse",
                  "UpstreamError", "InvalidCode", "TransportError", "NoApiKey"}
IsWeatherError(r) == r.st = "raise" /\ r.err \in WeatherErrors

(***************************************************************************)
(* Text                                                                    *)
(***************************************************************************)
Digits == <<"0", "1", "2", "3", "4", "5", "6", "7", "8", "9">>
IsDigit(c) == \E i \in 1..10 : Digits[i] = c
DigitVal(c) == (CHOOSE i \in 1..10 : Digits[i] = c) - 1

LowerLetters == <<"a", "c", "e", "k", "l", "r", "s", "y">>
UpperLetters == <<"A", "C", "E", "K", "L", "R", "S", "Y">>
ToUpper(c) == IF \E i \in 1..Len(LowerLetters) : LowerLetters[i] = c
              THEN UpperLetters[CHOOSE i \in 1..Len(LowerLetters) : LowerLetters[i] = c]
              ELSE c
ToLower(c) == IF \E i \in 1..Len(UpperLetters) : UpperLetters[i] = c
              THEN LowerLetters[CHOOSE i \in 1..Len(UpperLetters) : UpperLetters[i] = c]
              ELSE c

RECURSIVE LStrip(_)
LStrip(t) == IF t # <<>> /\ Head(t) = " " THEN LStrip(Tail(t)) ELSE t
RECURSIVE RStrip(_)
RStrip(t) == IF t # <<>> /\ t[Len(t)] = " " THEN RStrip(SubSeq(t, 1, Len(t) - 1)) ELSE t
\* str.strip()
Strip(t) == RStrip(LStrip(t))
\* str.capitalize(): the first character upper-cased, the rest lower-cased
Capitalize(t) == [i \in 1..Len(t) |-> IF i = 1 THEN ToUpper(t[i]) ELSE ToLower(t[i])]

RECURSIVE ParseNat(_)
ParseNat(t) == IF t = <<>> THEN 0
               ELSE 10 * ParseNat(SubSeq(t, 1, Len(t) - 1)) + DigitVal(t[Len(t)])
AllDigits(t) == \A i \in 1..Len(t) : IsDigit(t[i])

HasSign(t) == t # <<>> /\ Head(t) \in {"-", "+"}
Unsigned(t) == IF HasSign(t) THEN Tail(t) ELSE t
SignOf(t) == IF t # <<>> /\ Head(t) = "-" THEN -1 ELSE 1

\* int(<str>): surrounding blanks, an optional sign, one or more digits
IntOfStr(text) ==
    LET t == Strip(text)
        body == Unsigned(t)
    IN  IF body # <<>> /\ AllDigits(body)
        THEN Ok(I(SignOf(t) * ParseNat(body)))
        ELSE Raise("ValueError")

DotAt(t) == IF \E i \in 1..Len(t) : t[i] = "."
            THEN CHOOSE i \in 1..Len(t) : t[i] = "." /\ \A j \in 1..(i - 1) : t[j] # "."
            ELSE 0
\* float(<str>): surrounding blanks, an optional sign, digits with at most one
\* point and at least one digit; the value in tenths (the second and later
\* decimals are dropped)
FloatOfStr(text) ==
    LET t == Strip(text)
        body == Unsigned(t)
        dot == DotAt(body)
        whole == IF dot = 0 THEN body ELSE SubSeq(body, 1, dot - 1)
        frac == IF dot = 0 THEN <<>> ELSE SubSeq(body, dot + 1, Len(body))
    IN  IF AllDigits(whole) /\ AllDigits(frac) /\ Len(whole) + Len(frac) > 0
        THEN Ok(F(SignOf(t) * (10 * ParseNat(whole)
                               + (IF frac = <<>> THEN 0 ELSE DigitVal(frac[1])))))
        ELSE Raise("ValueError")

\* Truncation toward zero of a number held in tenths
Trunc(tenths) == IF tenths >= 0 THEN tenths \div 10 ELSE -((-tenths) \div 10)

(***************************************************************************)
(* The built-in conversions int() and float()                              *)
(***************************************************************************)
PyInt(v) ==
    CASE v.k = "int" -> Ok(v)
      [] v.k = "huge" -> Ok(v)
      [] v.k = "bool" -> Ok(I(v.n))
      [] v.k = "float" -> Ok(I(Trunc(v.n)))
      [] v.k = "inf" -> Raise("OverflowError")
      [] v.k = "nan" -> Raise("ValueError")
      [] v.k = "str" -> IntOfStr(v.s)
      [] OTHER -> Raise("TypeError")

PyFloat(v) ==
    CASE v.k = "int" -> Ok(F(10 * v.n))
      [] v.k = "bool" -> Ok(F(10 * v.n))
      [] v.k = "float" -> Ok(v)
      [] v.k = "inf" -> Ok(v)
      [] v.k = "nan" -> Ok(v)
      [] v.k = "huge" -> Raise("OverflowError")
      [] v.k = "str" -> FloatOfStr(v.s)
      [] OTHER -> Raise("TypeError")

\* except (TypeError, ValueError): raise WeatherError(...); anything else propagates
AsInvalidValue(r) ==
    IF r.st = "raise" /\ r.err \in {"TypeError", "ValueError"} THEN Raise("InvalidValue") ELSE r

\* bool(value)
Truthy(v) ==
    CASE v.k \in {"absent", "null"} -> FALSE
      [] v.k \in {"int", "float", "bool"} -> v.n # 0
      [] v.k = "str" -> v.s # <<>>
      [] OTHER -> TRUE

\* mapping.get(key): None when the key is absent
DictGet(leaf) == IF leaf = Absent THEN Null ELSE leaf
\* mapping.get(key, default)
DictGetDefault(leaf, default) == IF leaf = Absent THEN default ELSE leaf

(***************************************************************************)
(* Payload coercion                                                        *)
(***************************************************************************)
BlockShapes == {"absent", "null", "list", "dict"}

_optional_int(value) ==
    IF value = Null THEN Ok(Null) ELSE AsInvalidValue(PyInt(value))

_optional_float(value) ==
    IF value = Null THEN Ok(Null) ELSE AsInvalidValue(PyFloat(value))

\* block[key] of a block of shape `shape` holding `leaf` under the key
Subscript(shape, leaf) ==
    IF shape # "dict" THEN Raise("TypeError")
    ELSE IF leaf = Absent THEN Raise("KeyError") ELSE Ok(leaf)

\* A variant of _required_int that reads a missing key as 0
_int_or_zero(shape, leaf) ==
    IF shape # "dict" THEN Raise("TypeError")
    ELSE IF leaf = Absent THEN Ok(I(0))
    ELSE AsInvalidValue(PyInt(leaf))

_required_float(shape, leaf) ==
    LET got == Subscript(shape, leaf)
    IN  IF got.st = "raise"
        THEN (IF got.err = "KeyError" THEN Raise("MissingField") ELSE got)
        ELSE AsInvalidValue(PyFloat(got.val))

_required_int(shape, leaf) ==
    LET got == Subscript(shape, leaf)
    IN  IF got.st = "raise"
        THEN (IF got.err = "KeyError" THEN Raise("MissingField") ELSE got)
        ELSE AsInvalidValue(PyInt(got.val))

\* A variant of _float_with_default that falls back to 0.0 whatever the default
_float_or_zero(value, default) ==
    IF value = Null THEN Ok(F(0)) ELSE AsInvalidValue(PyFloat(value))

_float_with_default(value, default) ==
    LET coerced == _optional_float(value)
    IN  IF coerced.st = "raise" THEN coerced
        ELSE IF coerced.val = Null THEN Ok(default) ELSE coerced

_int_with_default(value, default) ==
    LET coerced == _optional_int(value)
    IN  IF coerced.st = "raise" THEN coerced
        ELSE IF coerced.val = Null THEN Ok(default) ELSE coerced

\* A variant of _safe_get that hands back a block that is no mapping
_get_or_block(shape, leaf) ==
    IF shape = "list" THEN ListV ELSE IF shape # "dict" THEN Null ELSE DictGet(leaf)

\* _safe_get(block, key) with the default None
_safe_get(shape, leaf) == IF shape # "dict" THEN Null ELSE DictGet(leaf)

(***************************************************************************)
(* The current-weather payload.  A payload is a mapping; the record holds  *)
(* the shape of each container and, for each key of a container, the value *)
(* under it (Absent when the key is missing or the container is no         *)
(* mapping).                                                               *)
(***************************************************************************)
\* payload["weather"]: missing, null, [], a list with a first element, a number
WeatherShapes == {"absent", "null", "empty", "list", "num"}
\* weather[0]: a mapping, or null
ElementShapes == {"dict", "null"}

NoData == <<"N", "e", "t", " ", "d", "a", "n", "n", "y", "h">>
Moscow == <<"M", "s", "k">>
Metric == "metric"

EmptyPayload ==
    [mainS |-> "absent", temp |-> Absent, feels_like |-> Absent, pressure |-> Absent,
     humidity |-> Absent, temp_min |-> Absent, temp_max |-> Absent,
     sysS |-> "absent", sunrise |-> Absent, sunset |-> Absent, country |-> Absent,
     windS |-> "absent", speed |-> Absent, deg |-> Absent,
     cloudsS |-> "absent", clouds_all |-> Absent,
     weatherS |-> "absent", w0S |-> "dict", description |-> Absent,
     coordS |-> "absent", lat |-> Absent, lon |-> Absent,
     visibility |-> Absent, timezone |-> Absent, name |-> Absent,
     cod |-> Absent, message |-> Absent]

\* What the API answers for a city: every container present, bounds absent.
BasePayload ==
    [EmptyPayload EXCEPT
        !.mainS = "dict", !.temp = F(150), !.feels_like = F(142), !.pressure = I(1013),
        !.humidity = I(50),
        !.sysS = "dict", !.sunrise = I(3600), !.sunset = I(7200), !.country = S(<<"R", "U">>),
        !.windS = "dict", !.speed = F(35), !.deg = I(180),
        !.cloudsS = "dict", !.clouds_all = I(40),
        !.weatherS = "list", !.description = S(<<"c", "l", "e", "a", "r">>),
        !.coordS = "dict", !.lat = F(557), !.lon = F(376),
        !.visibility = I(10000), !.timezone = I(10800), !.name = S(Moscow),
        !.cod = I(200)]

\* The keys of each container
MainKeys == {"temp", "feels_like", "pressure", "humidity", "temp_min", "temp_max"}
SysKeys == {"sunrise", "sunset", "country"}
WindKeys == {"speed", "deg"}
CloudsKeys == {"clouds_all"}
CoordKeys == {"lat", "lon"}

\* A payload is well formed when a container that is no mapping holds no keys.
Normal(p) ==
    [f \in DOMAIN p |->
        IF \/ f \in MainKeys /\ p.mainS # "dict"
           \/ f \in SysKeys /\ p.sysS # "dict"
           \/ f \in WindKeys /\ p.windS # "dict"
           \/ f \in CloudsKeys /\ p.cloudsS # "dict"
           \/ f \in CoordKeys /\ p.coordS # "dict"
           \/ f = "description" /\ (p.weatherS # "list" \/ p.w0S # "dict")
        THEN Absent
        ELSE IF f = "w0S" /\ p.weatherS # "list" THEN "dict"
        ELSE p[f]]

(***************************************************************************)
(* parse_weather_payload                                                   *)
(***************************************************************************)
_format_description(description) ==
    IF ~Truthy(description) THEN Ok(S(NoData))
    ELSE IF description.k = "str" THEN Ok(S(Capitalize(Strip(description.s))))
    ELSE Raise("AttributeError")

DaySeconds == 86400

\* timezone(timedelta(seconds=timezone_offset)), kept in whole seconds
TzOf(offset) ==
    CASE offset.k \in {"int", "bool"} ->
            IF -DaySeconds < offset.n /\ offset.n < DaySeconds
            THEN Ok(I(offset.n)) ELSE Raise("ValueError")
      [] offset.k = "float" ->
            IF -DaySeconds * 10 < offset.n /\ offset.n < DaySeconds * 10
            THEN Ok(I(Trunc(offset.n))) ELSE Raise("ValueError")
      [] offset.k \in {"inf", "huge"} -> Raise("OverflowError")
      [] offset.k = "nan" -> Raise("ValueError")
      [] OTHER -> Raise("TypeError")

\* The wall-clock time, in whole seconds, of an instant in a timezone
LocalTime(seconds, tz) == Leaf("time", seconds + tz.n, <<>>)

_to_local_time(timestamp, tz) ==
    CASE timestamp = Null -> Ok(Null)
      [] timestamp.k \in {"int", "bool"} -> Ok(LocalTime(timestamp.n, tz))
      [] timestamp.k = "float" -> Ok(LocalTime(Trunc(timestamp.n), tz))
      [] timestamp.k \in {"inf", "huge"} -> Raise("OverflowError")
      [] timestamp.k = "nan" -> Raise("ValueError")
      [] OTHER -> Raise("TypeError")

\* <block>.get(key) of a block that may be no mapping
AttrGet(shape, leaf) == IF shape # "dict" THEN Raise("AttributeError") ELSE Ok(DictGet(leaf))

\* The first step that raised, in the order the code runs them
RECURSIVE FirstRaise(_)
FirstRaise(steps) ==
    IF steps = <<>> THEN Ok(Null)
    ELSE IF Head(steps).st = "raise" THEN Head(steps) ELSE FirstRaise(Tail(steps))

\* weather_list[0] if weather_list else {}, then .get("description")
WeatherDescription(p) ==
    CASE p.weatherS \in {"absent", "null", "empty"} -> Ok(Null)
      [] p.weatherS = "num" -> Raise("TypeError")
      [] OTHER -> AttrGet(p.w0S, p.description)

\* A variant of the block lookup that accepts a missing block
OptionalBlock(shape) == Ok(Null)

\* payload[key] for a required top-level block
RequiredBlock(shape) == IF shape = "absent" THEN Raise("MalformedResponse") ELSE Ok(Null)

\* <block>.get(key) handed to _to_local_time under the payload's timezone
LocalTimeOf(raw, tz) ==
    IF raw.st = "raise" THEN raw
    ELSE IF tz.st = "raise" THEN Ok(Null)
    ELSE _to_local_time(raw.val, tz.val)

\* _format_description(weather_details.get("description"))
DescriptionOf(details) ==
    IF details.st = "raise" THEN details ELSE _format_description(details.val)

\* The statements of parse_weather_payload in the order the code runs them
ParseSteps(p) ==
    [main_block |-> RequiredBlock(p.mainS),
     sys_block |-> RequiredBlock(p.sysS),
     description |-> DescriptionOf(WeatherDescription(p)),
     tz |-> TzOf(DictGetDefault(p.timezone, I(0))),
     sunrise |-> LocalTimeOf(AttrGet(p.sysS, p.sunrise), TzOf(DictGetDefault(p.timezone, I(0)))),
     sunset |-> LocalTimeOf(AttrGet(p.sysS, p.sunset), TzOf(DictGetDefault(p.timezone, I(0)))),
     temperature |-> _required_float(p.mainS, p.temp),
     feels_like |-> _required_float(p.mainS, p.feels_like),
     pressure |-> _required_int(p.mainS, p.pressure),
     humidity |-> _required_int(p.mainS, p.humidity),
     wind_speed |-> _float_with_default(_safe_get(p.windS, p.speed), F(0)),
     wind_direction |-> _optional_int(_safe_get(p.windS, p.deg)),
     cloudiness |-> _int_with_default(_safe_get(p.cloudsS, p.clouds_all), I(0)),
     temperature_min |-> _float_with_default(DictGet(p.temp_min), _required_float(p.mainS, p.temp).val),
     temperature_max |-> _float_with_default(DictGet(p.temp_max), _required_float(p.mainS, p.temp).val),
     visibility |-> _optional_int(DictGet(p.visibility))]

StepOrder ==
    <<"main_block", "sys_block", "description", "tz", "sunrise", "sunset", "temperature",
      "feels_like", "pressure", "humidity", "wind_speed", "wind_direction", "cloudiness",
      "temperature_min", "temperature_max", "visibility">>

\* The snapshot the steps build, or the first failure among them
parse_weather_payload(p, fallback_city, units) ==
    CHOOSE result \in
        {IF FirstRaise([i \in DOMAIN StepOrder |-> step[StepOrder[i]]]).st = "raise"
         THEN FirstRaise([i \in DOMAIN StepOrder |-> step[StepOrder[i]]])
         ELSE Ok([city |-> IF Truthy(p.name) THEN p.name ELSE fallback_city,
                  country |-> DictGet(p.country),
                  description |-> step.description.val.s,
                  temperature |-> step.temperature.val,
                  feels_like |-> step.feels_like.val,
                  pressure |-> step.pressure.val,
                  humidity |-> step.humidity.val,
                  wind_speed |-> step.wind_speed.val,
                  wind_direction |-> step.wind_direction.val,
                  cloudiness |-> step.cloudiness.val,
                  temperature_min |-> step.temperature_min.val,
                  temperature_max |-> step.temperature_max.val,
                  visibility |-> step.visibility.val,
                  sunrise |-> step.sunrise.val,
                  sunset |-> step.sunset.val,
                  tz |-> step.tz.val,
                  units |-> units,
                  uv_index |-> Null,
                  air_quality_index |-> Null,
                  air_quality_components |-> Null,
                  weather_alerts |-> Null])
         : step \in {ParseSteps(p)}} : TRUE

(***************************************************************************)
(* Responses, decode_response and check_for_api_error                      *)
(***************************************************************************)
RaiseWith(e, v) == [st |-> "raise", err |-> e, val |-> v]

\* What requests.get meets: no answer (RequestException), an answer whose
\* body is no JSON, or a JSON body with the HTTP status code
Response(kind, code, body) == [kind |-> kind, status |-> code, body |-> body]

UnknownError == <<"u", "n", "k", "n", "o", "w", "n">>

check_for_api_error(p, status_code) ==
    LET message == IF Truthy(DictGet(p.message)) THEN p.message ELSE S(UnknownError)
        Raised(numeric_code) ==
            IF numeric_code.st = "raise"
            THEN (IF numeric_code.err \in {"TypeError", "ValueError"}
                  THEN Raise("InvalidCode") ELSE numeric_code)
            ELSE IF numeric_code.val # I(200)
            THEN RaiseWith("UpstreamError", message)
            ELSE Ok(Null)
    IN  Raised(PyInt(DictGetDefault(p.cod, I(status_code))))

\* requests.get(...) and decode_response(response)
decode_response(response) ==
    CASE response.kind = "neterror" -> Raise("TransportError")
      [] response.kind = "nonjson" -> Raise("TransportError")
      [] OTHER -> Ok(response.body)

\* The request, the decoding and the check of fetch_weather, fetch_forecast
\* and fetch_onecall
CheckedRequest(response) ==
    LET Checked(data, check) ==
            IF data.st = "raise" THEN data
            ELSE IF check.st = "raise" THEN check
            ELSE data
    IN  Checked(decode_response(response),
                check_for_api_error(response.body, response.status))

fetch_onecall(response) == CheckedRequest(response)

\* fetch_air_quality decodes the answer and does not check its code
fetch_air_quality(response) == decode_response(response)

(***************************************************************************)
(* The cache.  A cache file is missing, unreadable, or holds a payload     *)
(* written at mtime.  Times are in whole minutes.                          *)
(***************************************************************************)
\* The forecast payload {}: see ForecastBody
EmptyForecast == [cod |-> Absent, message |-> Absent, listS |-> "absent", items |-> <<>>]

WeatherTtl == 10
ForecastTtl == 30

CacheKey(kind, city, units, language) ==
    <<kind, "_">> \o city \o <<"_", units, "_">> \o language

NoFile == [state |-> "missing", mtime |-> 0, data |-> Null]
Unreadable == [state |-> "unreadable", mtime |-> 0, data |-> Null]
File(now, data) == [state |-> "file", mtime |-> now, data |-> data]

load_from_cache(file, now, max_age_minutes) ==
    IF file.state = "missing" THEN Null
    ELSE IF now - file.mtime > max_age_minutes THEN Null
    ELSE IF file.state = "unreadable" THEN Null
    ELSE file.data

\* save_to_cache: the file is written, or the write fails and is ignored
save_to_cache(file, now, data, written) == IF written THEN File(now, data) ELSE file

\* bool(cached): None and a mapping with no key are false
TruthyPayload(p) == p # Null /\ p \notin {EmptyPayload, EmptyForecast}

\* The body of fetch_weather and of fetch_forecast: the result, whether a
\* request was issued, and the cache file afterwards
CachedFetch(file, now, ttl, use_cache, response, written) ==
    LET Requested(data) ==
            [result |-> data, requested |-> TRUE,
             file |-> IF data.st = "ok" /\ use_cache
                      THEN save_to_cache(file, now, data.val, written) ELSE file]
        Cached(cached) ==
            IF use_cache /\ TruthyPayload(cached)
            THEN [result |-> Ok(cached), requested |-> FALSE, file |-> file]
            ELSE Requested(CheckedRequest(response))
    IN  Cached(IF use_cache THEN load_from_cache(file, now, ttl) ELSE Null)

fetch_weather(file, now, use_cache, response, written) ==
    CachedFetch(file, now, WeatherTtl, use_cache, response, written)

fetch_forecast(file, now, use_cache, response, written) ==
    CachedFetch(file, now, ForecastTtl, use_cache, response, written)

(***************************************************************************)
(* Enrichment payloads and their merge into the snapshot                   *)
(***************************************************************************)
Components(pm2_5, pm10) == [k |-> "components", pm2_5 |-> pm2_5, pm10 |-> pm10, n |-> 0, s |-> <<>>]

\* air pollution: the body, its "list", list[0], list[0]["main"], "aqi",
\* list[0]["components"]
AirBody(bodyS, listS, e0S, mainS, aqi, components) ==
    [bodyS |-> bodyS, listS |-> listS, e0S |-> e0S, mainS |-> mainS, aqi |-> aqi,
     components |-> components, cod |-> Absent, message |-> Absent]

add_air_quality_to_snapshot(snap, air) ==
    IF air.bodyS # "dict" THEN Raise("AttributeError")
    ELSE IF air.listS \in {"absent", "null", "empty"} THEN Ok(snap)
    ELSE IF air.e0S # "dict" THEN Raise("AttributeError")
    ELSE IF air.mainS \in {"null", "list"} THEN Raise("AttributeError")
    ELSE Ok([city |-> snap.city,
             country |-> snap.country,
             description |-> snap.description,
             temperature |-> snap.temperature,
             feels_like |-> snap.feels_like,
             pressure |-> snap.pressure,
             humidity |-> snap.humidity,
             wind_speed |-> snap.wind_speed,
             wind_direction |-> snap.wind_direction,
             cloudiness |-> snap.cloudiness,
             temperature_min |-> snap.temperature_min,
             temperature_max |-> snap.temperature_max,
             visibility |-> snap.visibility,
             sunrise |-> snap.sunrise,
             sunset |-> snap.sunset,
             tz |-> snap.tz,
             units |-> snap.units,
             uv_index |-> snap.uv_index,
             air_quality_index |-> IF air.mainS = "absent" THEN Null ELSE DictGet(air.aqi),
             air_quality_components |-> IF air.components = Absent
                                       THEN Components(Absent, Absent)
                                       ELSE air.components,
             weather_alerts |-> snap.weather_alerts])

\* one call: the body, "cod" and "message", "current", "uvi", "alerts"
OneCallBody(cod, message, currentS, uvi, alertsS, alerts) ==
    [cod |-> cod, message |-> message, currentS |-> currentS, uvi |-> uvi,
     alertsS |-> alertsS, alerts |-> alerts]

Alerts(items) == [k |-> "alerts", items |-> items]

\* A variant of the merge that keeps the "alerts" list as it is given
AlertsAsGiven(onecall) ==
    IF onecall.alertsS = "list" THEN Alerts(onecall.alerts) ELSE Null

\* onecall_data.get("alerts", []), then alerts if alerts else None
AlertsOrNone(onecall) ==
    IF onecall.alertsS = "list" /\ onecall.alerts # <<>>
    THEN Alerts(onecall.alerts) ELSE Null

\* A variant of add_uv_and_alerts_to_snapshot that builds the snapshot anew
\* without the air-quality data
add_uv_and_alerts_only(snap, onecall) ==
    IF onecall.currentS \in {"null", "list"} THEN Raise("AttributeError")
    ELSE Ok([snap EXCEPT
                !.uv_index = IF onecall.currentS = "absent" THEN Null ELSE DictGet(onecall.uvi),
                !.air_quality_index = Null,
                !.air_quality_components = Null,
                !.weather_alerts =
                    IF onecall.alertsS = "list" /\ onecall.alerts # <<>>
                    THEN Alerts(onecall.alerts) ELSE Null])

add_uv_and_alerts_to_snapshot(snap, onecall) ==
    IF onecall.currentS \in {"null", "list"} THEN Raise("AttributeError")
    ELSE Ok([city |-> snap.city,
             country |-> snap.country,
             description |-> snap.description,
             temperature |-> snap.temperature,
             feels_like |-> snap.feels_like,
             pressure |-> snap.pressure,
             humidity |-> snap.humidity,
             wind_speed |-> snap.wind_speed,
             wind_direction |-> snap.wind_direction,
             cloudiness |-> snap.cloudiness,
             temperature_min |-> snap.temperature_min,
             temperature_max |-> snap.temperature_max,
             visibility |-> snap.visibility,
             sunrise |-> snap.sunrise,
             sunset |-> snap.sunset,
             tz |-> snap.tz,
             units |-> snap.units,
             uv_index |-> IF onecall.currentS = "absent" THEN Null ELSE DictGet(onecall.uvi),
             air_quality_index |-> snap.air_quality_index,
             air_quality_components |-> snap.air_quality_components,
             weather_alerts |-> AlertsOrNone(onecall)])

(***************************************************************************)
(* The forecast payload, as far as main depends on it                      *)
(***************************************************************************)
\* "list" is missing or holds items, each with its "dt"
ForecastBody(cod, message, listS, items) ==
    [cod |-> cod, message |-> message, listS |-> listS, items |-> items]

ForecastEntry(dt) == [dt |-> dt]

\* parse_forecast_payload: the local time of each item, or the first failure
RECURSIVE ForecastTimes(_, _)
ForecastTimes(items, tz) ==
    IF items = <<>> THEN Ok(<<>>)
    ELSE LET got == Subscript("dict", Head(items).dt)
             timestamp == IF got.st = "raise" THEN got ELSE _to_local_time(got.val, tz)
             rest == ForecastTimes(Tail(items), tz)
         IN  IF timestamp.st = "raise" THEN timestamp
             ELSE IF timestamp.val = Null THEN Raise("TypeError")
             ELSE IF rest.st = "raise" THEN rest
             ELSE Ok(<<timestamp.val>> \o rest.val)

parse_forecast_payload(p, tz) ==
    IF p.listS = "absent" THEN Ok(<<>>) ELSE ForecastTimes(p.items, tz)

\* format_weather raises on numbers float() cannot hold: pressure * 0.75006,
\* humidity / 100, visibility / 1000
FormatWeatherRaises(snap) ==
    \/ snap.pressure = Huge
    \/ snap.humidity = Huge
    \/ snap.visibility = Huge

(***************************************************************************)
(* Floating-point arithmetic.  Python's float is the IEEE 754 double: a    *)
(* positive double is [m, e], m its 53 significant bits (the first is 1)   *)
(* and e its exponent, and stands for 0.m[1]m[2]...m[53] * 2^e.  Every     *)
(* operation rounds to the nearest double, a tie to the even one.          *)
(***************************************************************************)
Precision == 53

RECURSIVE Pow2(_)
Pow2(exp) == IF exp = 0 THEN 1 ELSE 2 * Pow2(exp - 1)

\* The first count bits of numerator / denominator (a fraction below 1)
RECURSIVE QuotientBits(_, _, _)
QuotientBits(numerator, denominator, count) ==
    IF count = 0 THEN <<>>
    ELSE IF 2 * numerator >= denominator
         THEN <<1>> \o QuotientBits(2 * numerator - denominator, denominator, count - 1)
         ELSE <<0>> \o QuotientBits(2 * numerator, denominator, count - 1)

\* What is left of the numerator after count bits
RECURSIVE QuotientRest(_, _, _)
QuotientRest(numerator, denominator, count) ==
    IF count = 0 THEN numerator
    ELSE IF 2 * numerator >= denominator
         THEN QuotientRest(2 * numerator - denominator, denominator, count - 1)
         ELSE QuotientRest(2 * numerator, denominator, count - 1)

\* bits + 1, as bits of the same length; all ones wrap to all zeros
RECURSIVE Increment(_)
Increment(bits) ==
    IF bits = <<>> THEN <<>>
    ELSE IF bits[Len(bits)] = 0 THEN [bits EXCEPT ![Len(bits)] = 1]
    ELSE Append(Increment(SubSeq(bits, 1, Len(bits) - 1)), 0)

\* The double nearest to 0.bits * 2^exp, where bits[1] = 1 and sticky tells
\* whether anything non-zero follows the bits: round to nearest, ties to even
RoundToDouble(bits, exp, sticky) ==
    IF Len(bits) <= Precision
    THEN [m |-> bits \o [i \in 1..(Precision - Len(bits)) |-> 0], e |-> exp]
    ELSE LET kept == SubSeq(bits, 1, Precision)
             guard == bits[Precision + 1]
             rest == sticky \/ \E i \in (Precision + 2)..Len(bits) : bits[i] = 1
             up == guard = 1 /\ (rest \/ kept[Precision] = 1)
         IN  IF ~up THEN [m |-> kept, e |-> exp]
             ELSE IF \A i \in DOMAIN kept : kept[i] = 1
             THEN [m |-> [i \in 1..Precision |-> IF i = 1 THEN 1 ELSE 0], e |-> exp + 1]
             ELSE [m |-> Increment(kept), e |-> exp]

\* The exponent of a positive fraction numerator / denominator: the least
\* exp with numerator < denominator * 2^exp
RECURSIVE ExponentOf(_, _)
ExponentOf(numerator, denominator) ==
    IF numerator >= denominator THEN 1 + ExponentOf(numerator, 2 * denominator)
    ELSE IF 2 * numerator < denominator THEN ExponentOf(2 * numerator, denominator) - 1
    ELSE 0

\* numerator / denominator of two positive integers: int.__truediv__
FloatDiv(numerator, denominator) ==
    LET exp == ExponentOf(numerator, denominator)
        n == IF exp < 0 THEN numerator * Pow2(-exp) ELSE numerator
        d == IF exp > 0 THEN denominator * Pow2(exp) ELSE denominator
    IN  RoundToDouble(QuotientBits(n, d, Precision + 1), exp,
                      QuotientRest(n, d, Precision + 1) # 0)

\* bits * factor, as bits (the last bit first), carry being the part of the
\* product not yet written out
RECURSIVE TimesBits(_, _, _)
TimesBits(bits, factor, carry) ==
    IF bits = <<>>
    THEN (IF carry = 0 THEN <<>> ELSE <<carry % 2>> \o TimesBits(<<>>, factor, carry \div 2))
    ELSE <<(bits[Len(bits)] * factor + carry) % 2>>
            \o TimesBits(SubSeq(bits, 1, Len(bits) - 1), factor,
                         (bits[Len(bits)] * factor + carry) \div 2)

Reverse(bits) == [i \in DOMAIN bits |-> bits[Len(bits) + 1 - i]]

\* x * factor of a double and a positive integer: float.__mul__
FloatTimes(x, factor) ==
    LET Product(bits) == RoundToDouble(bits, x.e + Len(bits) - Precision, FALSE)
    IN  Product(Reverse(TimesBits(x.m, factor, 0)))

\* The integer the bits stand for
RECURSIVE BitsValue(_)
BitsValue(bits) ==
    IF bits = <<>> THEN 0 ELSE 2 * BitsValue(SubSeq(bits, 1, Len(bits) - 1)) + bits[Len(bits)]

\* int(x) of a positive double below 2^31: the part before the binary point
FloatTrunc(x) == IF x.e <= 0 THEN 0 ELSE BitsValue(SubSeq(x.m, 1, x.e))

(***************************************************************************)
(* Formatting.  A formatter returns a text; the model holds it as its rows *)
(* (the text split at the line breaks), a row as a sequence of tokens      *)
(* [t, s, n, d]: a decoration marker of colorama, a literal or a value     *)
(* text, or a number n/d in tenths with the format it is printed in.       *)
(***************************************************************************)
Token(kind, chars, num, den) == [t |-> kind, s |-> chars, n |-> num, d |-> den]
\* Fore.<name> and Style.<name>
Mark(name) == Token("mark", <<name>>, 0, 1)
Text(literal) == Token("text", <<literal>>, 0, 1)
Chars(value) == Token("chars", value, 0, 1)
\* f"{value:<format>}" of value = num/den tenths
Num(format, num, den) == Token("num", <<format>>, num, den)
\* strftime(<format>) of a local time
Time(format, seconds) == Token("time", <<format>>, seconds, 1)
\* char * count; a negative count gives the empty text
Repeat(char, count) == Token("repeat", <<char>>, IF count < 0 THEN 0 ELSE count, 1)

\* The dataclass ForecastItem, with the fields the formatters read:
\* timestamp is a local time, temperature is in tenths of a degree,
\* precipitation_probability in tenths of a percent
ForecastItem(timestamp, temperature, description, precipitation_probability) ==
    [timestamp |-> timestamp, temperature |-> temperature, description |-> description,
     precipitation_probability |-> precipitation_probability]

Rain == <<"R", "a", "i", "n">>
Fog == <<"F", "o", "g">>

\* WEATHER_EMOJI.get(description.lower(), <rainbow>), for the keys the
\* descriptions of the model reach
WEATHER_EMOJI(description) ==
    LET key == [i \in DOMAIN description |-> ToLower(description[i])]
    IN  CASE key = <<"r", "a", "i", "n">> -> Text("rain cloud")
          [] key = <<"f", "o", "g">> -> Text("fog")
          [] OTHER -> Text("rainbow")

\* UNITS_LABELS.get(units, ("deg", "m/s")): temp_unit, wind_unit
UNITS_LABELS(units) ==
    CASE units = "metric" -> <<Text("deg C"), Text("m/s")>>
      [] units = "imperial" -> <<Text("deg F"), Text("mph")>>
      [] units = "standard" -> <<Text("K"), Text("m/s")>>
      [] OTHER -> <<Text("deg"), Text("m/s")>>

PyMin(values) == CHOOSE v \in {values[i] : i \in DOMAIN values} : \A i \in DOMAIN values : v <= values[i]
PyMax(values) == CHOOSE v \in {values[i] : i \in DOMAIN values} : \A i \in DOMAIN values : v >= values[i]
RECURSIVE PySum(_)
PySum(values) == IF values = <<>> THEN 0 ELSE Head(values) + PySum(Tail(values))

\* item.timestamp.strftime("%Y-%m-%d"): the calendar day of a local time,
\* as the number of the day
DayKey(item) == item.timestamp.n \div DaySeconds

\* The keys of days, in the order the loop inserted them
RECURSIVE DayKeys(_)
DayKeys(items) ==
    IF items = <<>> THEN <<>>
    ELSE LET Inserted(days, day_key) ==
                 IF \E i \in DOMAIN days : days[i] = day_key THEN days ELSE Append(days, day_key)
         IN  Inserted(DayKeys(SubSeq(items, 1, Len(items) - 1)), DayKey(items[Len(items)]))

\* days[day_key]
DayItems(items, day_key) == SelectSeq(items, LAMBDA item : DayKey(item) = day_key)

\* descriptions.count(description)
CountOf(descriptions, description) ==
    Cardinality({i \in DOMAIN descriptions : descriptions[i] = description})

\* max(set(descriptions), key=descriptions.count): the first description of
\* the set, in the order the set is iterated in, that no other outnumbers
ModeOf(descriptions, set_order) ==
    LET present == SelectSeq(set_order, LAMBDA d : CountOf(descriptions, d) > 0)
        first == CHOOSE i \in DOMAIN present :
                    /\ \A j \in DOMAIN present :
                          CountOf(descriptions, present[j]) <= CountOf(descriptions, present[i])
                    /\ \A j \in 1..(i - 1) :
                          CountOf(descriptions, present[j]) < CountOf(descriptions, present[i])
    IN  present[first]

Temperatures(day_items) == [i \in DOMAIN day_items |-> day_items[i].temperature]
Descriptions(day_items) == [i \in DOMAIN day_items |-> day_items[i].description]
Precipitations(day_items) == [i \in DOMAIN day_items |-> day_items[i].precipitation_probability]

\* The rows of one day of the daily forecast
DaySection(day_key, day_items, temp_unit, with_color, set_order) ==
    LET Section(temps, main_desc, max_precip) ==
            <<  <<>>,
                (IF with_color THEN <<Mark("Fore.YELLOW")>> ELSE <<>>)
                    \o <<WEATHER_EMOJI(main_desc), Text(" "), Time("%A, %d %B", day_key * DaySeconds)>>
                    \o (IF with_color THEN <<Mark("Style.RESET_ALL")>> ELSE <<>>),
                <<Text("  "), Chars(main_desc)>>,
                <<Text("  Temperatura: "), Num(".1f", PyMin(temps), 1), temp_unit,
                  Text(" ... "), Num(".1f", PyMax(temps), 1), temp_unit,
                  Text(" (srednyaya "), Num(".1f", PySum(temps), Len(temps)), temp_unit, Text(")")>> >>
            \o (IF max_precip > 100
                THEN << <<Text("  Veroyatnost osadkov: "), Num(".0f", max_precip, 1), Text("%")>> >>
                ELSE <<>>)
    IN  Section(Temperatures(day_items), ModeOf(Descriptions(day_items), set_order),
                PyMax(Precipitations(day_items)))

\* The rows of the days in day_keys, concatenated
RECURSIVE DaySections(_, _, _, _, _)
DaySections(day_keys, items, temp_unit, with_color, set_order) ==
    IF day_keys = <<>> THEN <<>>
    ELSE DaySection(Head(day_keys), DayItems(items, Head(day_keys)), temp_unit, with_color, set_order)
            \o DaySections(Tail(day_keys), items, temp_unit, with_color, set_order)

\* A report of every day, whatever their number
AllDays(days, count) == days

\* list(days.items())[:count]
FirstDays(days, count) == SubSeq(days, 1, IF Len(days) < count THEN Len(days) ELSE count)

DaysShown == 5

NoForecast == << <<Text("Net dannykh prognoza")>> >>

Header(title, with_color) ==
    (IF with_color THEN <<Mark("Fore.CYAN"), Mark("Style.BRIGHT")>> ELSE <<>>)
        \o <<Text(title)>>
        \o (IF with_color THEN <<Mark("Style.RESET_ALL")>> ELSE <<>>)

\* set_order is the order in which this process iterates a set of texts
format_daily_forecast(items, units, with_color, set_order) ==
    IF items = <<>> THEN NoForecast
    ELSE <<Header("Prognoz pogody na 5 dney", with_color), <<Repeat("=", 60)>> >>
            \o DaySections(FirstDays(DayKeys(items), DaysShown), items, UNITS_LABELS(units)[1],
                           with_color, set_order)

\* The row of one item of the hourly forecast
HourRow(item, temp_unit, with_color) ==
    (IF with_color THEN <<Mark("Fore.YELLOW")>> ELSE <<>>)
        \o <<Time("%H:%M", item.timestamp.n)>>
        \o (IF with_color THEN <<Mark("Style.RESET_ALL")>> ELSE <<>>)
        \o <<Text(" "), WEATHER_EMOJI(item.description), Text(" "),
             Num(">5.1f", item.temperature, 1), temp_unit, Text("  "), Chars(item.description)>>
        \o (IF item.precipitation_probability > 200
            THEN <<Text("  kaplya "), Num(".0f", item.precipitation_probability, 1), Text("%")>>
            ELSE <<>>)

HoursShown == 8

format_hourly_forecast(items, units, with_color) ==
    IF items = <<>> THEN NoForecast
    ELSE <<Header("Pochasovoy prognoz na 24 chasa", with_color), <<Repeat("=", 80)>> >>
            \o [i \in 1..(IF Len(items) < HoursShown THEN Len(items) ELSE HoursShown) |->
                    HourRow(items[i], UNITS_LABELS(units)[1], with_color)]

\* f"{value}" and f"{value:<format>}" of a payload value
Shown(format, value) == Token(value.k, <<format>> \o value.s, value.n, 1)

\* int((humidity / 100) * width), for a humidity and a width that are not
\* negative
Filled(humidity, width) ==
    IF humidity = 0 \/ width = 0 THEN 0
    ELSE FloatTrunc(FloatTimes(FloatDiv(humidity, 100), width))

create_humidity_bar(humidity, width) ==
    \* int() rounds towards zero and the sign of a product is that of the exact one
    LET Bar(filled) ==
            <<Text("["), Repeat("filled", filled), Repeat("unfilled", width - filled),
              Text("] "), Shown("", I(humidity)), Text("%")>>
    IN  Bar(IF humidity < 0 THEN -Filled(-humidity, width) ELSE Filled(humidity, width))

\* arrows[int((degrees % 360) / 45)]; the quotient is a whole number or at
\* least 1/45 away from one, so that its rounding to a double changes nothing
create_wind_arrow(degrees) == Token("arrow", <<"arrows">>, (degrees % 360) \div 45, 1)

\* The rose: S(ever), V(ostok), Yu(g), Z(apad)
Directions ==
    <<"S", "SSV", "SV", "VSV", "V", "VYuV", "YuV", "YuYuV",
      "Yu", "YuYuZ", "YuZ", "ZYuZ", "Z", "ZSZ", "SZ", "SSZ">>

\* int(angle / 22.5) % 16: the sector the angle lies in, rounding down
SectorBelow(angle) == ((4 * angle) \div 90) % Len(Directions)

\* int(angle / 22.5 + 0.5) % 16.  angle / 22.5 + 0.5 is (4 * angle + 45) / 90,
\* an odd number of 90ths: at least 1/90 away from a whole number, so that
\* the rounding of the quotient and of the sum to doubles changes nothing
SectorNearest(angle) == ((4 * angle + 45) \div 90) % Len(Directions)

_format_wind_direction(degrees) == Directions[SectorNearest(degrees % 360) + 1]

\* UV_LABELS, the bounds in tenths; the last band has no upper bound
UV_LABELS ==
    <<[min_val |-> 0, max_val |-> 20, bounded |-> TRUE, label |-> "Nizkiy", color |-> "Fore.GREEN"],
      [min_val |-> 30, max_val |-> 50, bounded |-> TRUE, label |-> "Umerennyy", color |-> "Fore.YELLOW"],
      [min_val |-> 60, max_val |-> 70, bounded |-> TRUE, label |-> "Vysokiy", color |-> "Fore.LIGHTYELLOW_EX"],
      [min_val |-> 80, max_val |-> 100, bounded |-> TRUE, label |-> "Ochen vysokiy", color |-> "Fore.LIGHTRED_EX"],
      [min_val |-> 110, max_val |-> 0, bounded |-> FALSE, label |-> "Ekstremalnyy", color |-> "Fore.RED"]>>

Unknown == [label |-> "Neizvestno", color |-> "Fore.WHITE"]

\* min_val <= uv <= max_val, uv a number
InBand(band, uv) ==
    CASE uv.k \in {"inf", "huge"} -> ~band.bounded
      [] uv.k = "nan" -> FALSE
      [] uv.k = "float" -> band.min_val <= uv.n /\ (band.bounded => uv.n <= band.max_val)
      [] OTHER -> band.min_val <= 10 * uv.n /\ (band.bounded => 10 * uv.n <= band.max_val)

\* The label and the colour of the first band that holds uv
get_uv_label(uv) ==
    IF \E i \in DOMAIN UV_LABELS : InBand(UV_LABELS[i], uv)
    THEN LET first == CHOOSE i \in DOMAIN UV_LABELS :
                         /\ InBand(UV_LABELS[i], uv)
                         /\ \A j \in 1..(i - 1) : ~InBand(UV_LABELS[j], uv)
         IN  [label |-> UV_LABELS[first].label, color |-> UV_LABELS[first].color]
    ELSE Unknown

AIR_QUALITY_LABELS ==
    <<[label |-> "Otlichnoe", color |-> "Fore.GREEN"],
      [label |-> "Khoroshee", color |-> "Fore.LIGHTGREEN_EX"],
      [label |-> "Umerennoe", color |-> "Fore.YELLOW"],
      [label |-> "Plokhoe", color |-> "Fore.LIGHTRED_EX"],
      [label |-> "Ochen plokhoe", color |-> "Fore.RED"]>>

\* Every index has the label of the value one
AqiAlwaysFirst(aqi) == AIR_QUALITY_LABELS[1]

\* AIR_QUALITY_LABELS.get(aqi, ("Neizvestno", Fore.WHITE)): a key of the
\* table is a number equal to one of 1..5
AqiLabel(aqi) ==
    CASE aqi.k \in {"int", "bool"} /\ aqi.n \in DOMAIN AIR_QUALITY_LABELS -> AIR_QUALITY_LABELS[aqi.n]
      [] aqi.k = "float" /\ aqi.n % 10 = 0 /\ (aqi.n \div 10) \in DOMAIN AIR_QUALITY_LABELS ->
            AIR_QUALITY_LABELS[aqi.n \div 10]
      [] OTHER -> Unknown

_format_visibility(visibility) ==
    <<Shown("", visibility), Text(" m ("), Num(".1f", visibility.n, 100), Text(" km)")>>

\* f"UTC{sign}{hours:02d}:{minutes:02d}" of total_minutes
_format_timezone(tz) == Token("timezone", <<"UTC">>, tz.n \div 60, 1)

_format_time(moment, timezone_label) ==
    IF moment = Null THEN <<Text("-")>>
    ELSE <<Time("%H:%M:%S", moment.n), Text(" ("), timezone_label, Text(")")>>

Row(key, length, value, row_color) ==
    [key |-> key, len |-> length, value |-> value, color |-> row_color]

\* Fore.<name> if use_color else Fore.WHITE
ColorIf(with_color, name) == IF with_color THEN name ELSE "Fore.WHITE"

\* temp_color
TemperatureColor(temperature, with_color) ==
    IF ~with_color THEN "Fore.WHITE"
    ELSE IF temperature.k # "float" THEN "Fore.RED"
    ELSE IF temperature.n < 0 THEN "Fore.BLUE"
    ELSE IF temperature.n < 100 THEN "Fore.CYAN"
    ELSE IF temperature.n < 200 THEN "Fore.GREEN"
    ELSE IF temperature.n < 300 THEN "Fore.YELLOW"
    ELSE "Fore.RED"

\* f"{temp_color}{value:.1f} {temp_unit}{Style.RESET_ALL if use_color else ''}"
Tinted(temp_color, value, temp_unit, with_color) ==
    <<Mark(temp_color), Shown(".1f", value), Text(" "), temp_unit>>
        \o (IF with_color THEN <<Mark("Style.RESET_ALL")>> ELSE <<>>)

\* The rows up to sunset
WeatherRows(snap, unit, with_color) ==
    <<Row("Kratko", 10, <<Chars(snap.description)>>, "Fore.WHITE"),
      Row("Temperatura", 15,
          Tinted(TemperatureColor(snap.temperature, with_color), snap.temperature, unit[1], with_color),
          "Fore.WHITE"),
      Row("Oshchushchaetsya kak", 15,
          Tinted(TemperatureColor(snap.temperature, with_color), snap.feels_like, unit[1], with_color),
          "Fore.WHITE"),
      Row("Davlenie", 10,
          <<Shown("", snap.pressure), Text(" gPa (~"), Shown("* 0.75006:.0f", snap.pressure),
            Text(" mm rt. st.)")>>,
          "Fore.WHITE"),
      Row("Vlazhnost", 11, create_humidity_bar(snap.humidity.n, 25),
          ColorIf(with_color, "Fore.LIGHTBLUE_EX")),
      Row("Skorost vetra", 16, <<Shown(".1f", snap.wind_speed), Text(" "), unit[2]>>,
          ColorIf(with_color, "Fore.LIGHTCYAN_EX"))>>
    \o (IF snap.wind_direction # Null
        THEN <<Row("Napravlenie vetra", 19,
                   <<create_wind_arrow(snap.wind_direction.n), Text(" "),
                     Shown("", snap.wind_direction), Text("deg ("),
                     Text(_format_wind_direction(snap.wind_direction.n)), Text(")")>>,
                   "Fore.WHITE")>>
        ELSE <<>>)
    \o <<Row("Oblachnost", 14, <<Shown("", snap.cloudiness), Text("%")>>, "Fore.WHITE"),
         Row("Min. temperatura", 18, <<Shown(".1f", snap.temperature_min), Text(" "), unit[1]>>,
             ColorIf(with_color, "Fore.BLUE")),
         Row("Maks. temperatura", 19, <<Shown(".1f", snap.temperature_max), Text(" "), unit[1]>>,
             ColorIf(with_color, "Fore.RED"))>>
    \o (IF snap.visibility # Null
        THEN <<Row("Vidimost", 13, _format_visibility(snap.visibility), "Fore.WHITE")>>
        ELSE <<>>)
    \o <<Row("Voskhod", 8, _format_time(snap.sunrise, _format_timezone(snap.tz)),
             ColorIf(with_color, "Fore.LIGHTYELLOW_EX")),
         Row("Zakat", 7, _format_time(snap.sunset, _format_timezone(snap.tz)),
             ColorIf(with_color, "Fore.LIGHTMAGENTA_EX"))>>

\* f"{color}{text}{Style.RESET_ALL}" if use_color
Painted(label, value, with_color) ==
    (IF with_color THEN <<Mark(label.color)>> ELSE <<>>)
        \o value
        \o (IF with_color THEN <<Mark("Style.RESET_ALL")>> ELSE <<>>)

\* The rows of the extended data
ExtendedRows(snap, with_color) ==
    (IF snap.uv_index # Null
     THEN <<Row("UV-indeks", 13,
                Painted(get_uv_label(snap.uv_index),
                        <<Shown(".1f", snap.uv_index), Text(" ("),
                          Text(get_uv_label(snap.uv_index).label), Text(")")>>,
                        with_color),
                "Fore.WHITE")>>
     ELSE <<>>)
    \o (IF snap.air_quality_index # Null
        THEN <<Row("Kachestvo vozdukha", 20,
                   Painted(AqiLabel(snap.air_quality_index),
                           <<Shown("", snap.air_quality_index), Text(" ("),
                             Text(AqiLabel(snap.air_quality_index).label), Text(")")>>,
                           with_color),
                   "Fore.WHITE")>>
             \o (IF snap.air_quality_components # Null /\ snap.air_quality_components.pm2_5 # Absent
                 THEN <<Row("PM2.5", 10,
                            <<Shown(".1f", snap.air_quality_components.pm2_5), Text(" ug/m3")>>,
                            ColorIf(with_color, "Fore.LIGHTBLACK_EX"))>>
                 ELSE <<>>)
             \o (IF snap.air_quality_components # Null /\ snap.air_quality_components.pm10 # Absent
                 THEN <<Row("PM10", 9,
                            <<Shown(".1f", snap.air_quality_components.pm10), Text(" ug/m3")>>,
                            ColorIf(with_color, "Fore.LIGHTBLACK_EX"))>>
                 ELSE <<>>)
        ELSE <<>>)

\* f"{key:<{key_width}} : {color}{value}{Style.RESET_ALL}", or without the
\* colour.  No value holds the text "Style.RESET_ALL": a value holds the
\* escape sequence colorama gives that name, and only in rows of Fore.WHITE.
Line(row, key_width, with_color) ==
    <<Token("key", <<row.key>>, key_width, 1), Text(" : ")>>
        \o (IF with_color /\ row.color # "Fore.WHITE"
            THEN <<Mark(row.color)>> \o row.value \o <<Mark("Style.RESET_ALL")>>
            ELSE row.value)

\* The rows of one alert
AlertRows(alert, with_color) ==
    << (IF with_color THEN <<Mark("Fore.YELLOW")>> ELSE <<>>)
          \o <<Text("* "), Shown("", DictGetDefault(alert.event, S(<<"Preduprezhdenie">>)))>>
          \o (IF with_color THEN <<Mark("Style.RESET_ALL")>> ELSE <<>>) >>
    \o (IF Truthy(DictGet(alert.start)) /\ Truthy(DictGet(alert.end))
        THEN << <<Text("  Period: "), Time("%d.%m %H:%M", alert.start.n), Text(" - "),
                  Time("%d.%m %H:%M", alert.end.n)>> >>
        ELSE <<>>)
    \o << <<Text("  "),
            Chars(LET description == DictGetDefault(alert.description, S(<<"Net opisaniya">>)).s
                  IN  SubSeq(description, 1, IF Len(description) < 200 THEN Len(description) ELSE 200)),
            Text("...")>> >>

RECURSIVE AllAlertRows(_, _)
AllAlertRows(alerts, with_color) ==
    IF alerts = <<>> THEN <<>>
    ELSE AlertRows(Head(alerts), with_color) \o AllAlertRows(Tail(alerts), with_color)

\* if snapshot.weather_alerts: the block of the weather alerts
AlertBlock(snap, with_color) ==
    IF snap.weather_alerts = Null \/ snap.weather_alerts.items = <<>> THEN <<>>
    ELSE << <<>>, <<Repeat("=", 70)>>,
            (IF with_color THEN <<Mark("Fore.RED"), Mark("Style.BRIGHT")>> ELSE <<>>)
                \o <<Text("POGODNYE PREDUPREZHDENIYA")>>
                \o (IF with_color THEN <<Mark("Style.RESET_ALL")>> ELSE <<>>),
            <<Repeat("=", 70)>> >>
         \o AllAlertRows(snap.weather_alerts.items, with_color)

\* The rows of the report of a snapshot format_weather does not fail on
format_weather(snap, with_color) ==
    LET Lines(table) ==
            << (IF with_color THEN <<Mark("Fore.CYAN"), Mark("Style.BRIGHT")>> ELSE <<>>)
                  \o <<WEATHER_EMOJI(snap.description), Text(" Pogoda ot YonSe v gorode "),
                       Shown("", snap.city)>>
                  \o (IF Truthy(snap.country) THEN <<Text(", "), Shown("", snap.country)>> ELSE <<>>)
                  \o (IF with_color THEN <<Mark("Style.RESET_ALL")>> ELSE <<>>),
               <<Repeat("=", 70)>> >>
            \o [i \in DOMAIN table |->
                   Line(table[i], PyMax([j \in DOMAIN table |-> table[j].len]), with_color)]
            \o AlertBlock(snap, with_color)
    IN  Lines(WeatherRows(snap, UNITS_LABELS(snap.units), with_color)
                  \o ExtendedRows(snap, with_color))

\* A chart of every item, however many
EverySample(items) == items

\* items[:8]
FirstSamples(items) == SubSeq(items, 1, IF Len(items) < HoursShown THEN Len(items) ELSE HoursShown)

ChartHeight == 10

\* int(normalized * (height - 1)) for normalized = (temp - min_temp) / temp_range,
\* the two differences in tenths of a degree.  The temperatures of the model
\* are whole and half degrees, which a double holds exactly, so that both
\* differences are exact and the quotient is the first rounding.
ChartLevel(difference, temp_range) ==
    IF difference = 0 THEN 0
    ELSE FloatTrunc(FloatTimes(FloatDiv(difference, temp_range), ChartHeight - 1))

\* y_pos = height - 1 - int(normalized * (height - 1)) of every sample
RECURSIVE Positions(_, _, _)
Positions(temps, min_temp, temp_range) ==
    IF temps = <<>> THEN <<>>
    ELSE <<ChartHeight - 1 - ChartLevel(Head(temps) - min_temp, temp_range)>>
            \o Positions(Tail(temps), min_temp, temp_range)

\* The rows of the chart: the title, an empty row, height rows of a label
\* and one cell for each sample, the axis, and every second time
create_temperature_chart(items) ==
    IF Len(items) < 2 THEN <<>>
    ELSE LET Drawn(temps, max_temp, temp_range, pos) ==
                 <<  <<Text("Grafik temperatury (24 chasa)")>>, <<>>  >>
                 \o [line \in 1..ChartHeight |->
                        <<Num(">5.1f", (ChartHeight - 1) * max_temp - (line - 1) * temp_range,
                              ChartHeight - 1),
                          Text("deg |")>>
                        \o [i \in DOMAIN temps |->
                               IF pos[i] = line - 1 THEN Text("*") ELSE Text(" ")]]
                 \o <<  <<Text("      +"), Repeat("-", Len(temps))>>,
                        <<Text("        ")>>
                        \o [i \in 1..((Len(temps) + 1) \div 2) |->
                               Time("%H:%M", items[2 * i - 1].timestamp.n)]  >>
             Scaled(temps, min_temp, max_temp, temp_range) ==
                 CHOOSE chart \in {Drawn(temps, max_temp, temp_range, pos)
                                     : pos \in {Positions(temps, min_temp, temp_range)}} : TRUE
             Ranged(temps, min_temp, max_temp) ==
                 Scaled(temps, min_temp, max_temp,
                        IF max_temp # min_temp THEN max_temp - min_temp ELSE 10)
         IN  CHOOSE chart \in {Ranged(temps, PyMin(temps), PyMax(temps))
                                 : temps \in {Temperatures(FirstSamples(items))}} : TRUE

(***************************************************************************)
(* main                                                                    *)
(***************************************************************************)
Russian == <<"r", "u">>
WeatherKey == CacheKey("weather", Moscow, Metric, Russian)
ForecastKey == CacheKey("forecast", Moscow, Metric, Russian)

NoEnrichment == [air |-> "none", onecall |-> "none"]

\* The arguments of a run of main.py (the flags, the city, --units and
\* --lang), and the legacy script YonSeWeather.py, which has no flags, no
\* cache and no built-in API key
Flags(extended, forecast, hourly, chart, no_cache) ==
    [script |-> "main", api_key |-> TRUE, extended |-> extended, forecast |-> forecast,
     hourly |-> hourly, chart |-> chart, no_cache |-> no_cache,
     city |-> Moscow, units |-> Metric, lang |-> Russian]
Legacy(api_key) ==
    [script |-> "legacy", api_key |-> api_key, extended |-> FALSE, forecast |-> FALSE,
     hourly |-> FALSE, chart |-> FALSE, no_cache |-> TRUE,
     city |-> Moscow, units |-> Metric, lang |-> Russian]
OptionSets ==
    {Flags(e, f, h, c, n) : e \in BOOLEAN, f \in BOOLEAN, h \in BOOLEAN, c \in BOOLEAN, n \in BOOLEAN}
        \cup {Legacy(TRUE), Legacy(FALSE)}

\* The statement after the snapshot is built, after the report and after
\* the daily forecast
\* A run that asks for the extended data whatever the flags
EnrichAlways(o) == "air"
AfterParse(o) == IF o.extended THEN "air" ELSE "report"
AfterForecast(o) == IF o.hourly \/ (o.chart /\ o.forecast) THEN "hourly" ELSE "thanks"
AfterReport(o) == IF o.forecast THEN "forecast" ELSE AfterForecast(o)

NoRaise == [at |-> "", err |-> ""]

\* A handler that lets WeatherError through, and one that catches only the
\* errors the API reports
ExceptOtherThanWeatherError(r) == r.st = "raise" /\ ~IsWeatherError(r)
ExceptUpstreamOnly(r) == r.st = "raise" /\ r.err = "UpstreamError"

\* except Exception as e: every exception of the enrichment block
ExceptException(r) == r.st = "raise"
\* except WeatherError: the handler of main and of the one-call step
ExceptWeatherError(r) == IsWeatherError(r)

\* An exception leaves the try block of main at a statement: except
\* WeatherError prints one line and returns 1; any other exception leaves
\* main with a traceback
Fail(at, r) ==
    /\ pc' = "done"
    /\ raised' = [at |-> at, err |-> r.err]
    /\ out' = IF ExceptWeatherError(r) THEN Append(out, "error") ELSE out
    /\ status' = IF ExceptWeatherError(r) THEN "1" ELSE "traceback"

(***************************************************************************)
(* Inputs of the coercion layer                                            *)
(***************************************************************************)
MaxTextLen == 3
MaxNum == 2

\* Every text of at most MaxTextLen characters over the characters that
\* decide how int() and float() read it
NumChars == {"1", ".", "-", " ", "x"}
RECURSIVE TextsUpTo(_)
TextsUpTo(len) ==
    IF len = 0 THEN {<<>>}
    ELSE LET shorter == TextsUpTo(len - 1)
         IN  shorter \cup {Append(t, c) : t \in shorter, c \in NumChars}

CoerceValues ==
    {Null, Inf, NaN, Huge, ListV, DictV, B(0), B(1), I(15), F(157), F(-157)}
        \cup {I(num) : num \in -MaxNum..MaxNum}
        \cup {F(5 * num) : num \in -MaxNum..MaxNum}
        \cup {S(t) : t \in TextsUpTo(MaxTextLen)}

NoCall == [st |-> "none", err |-> "", val |-> Null]

CoerceIdle ==
    /\ arg = Absent /\ blk = "dict" /\ dflt = Null /\ cop = "idle" /\ cres = NoCall
    /\ http = 200 /\ msg = Absent
ParseIdle == payload = EmptyPayload /\ edits = 0 /\ presult = NoCall
FormatIdle == forecast_items = <<>> /\ color = FALSE /\ rows = <<>>
RunIdle ==
    /\ opts = Legacy(TRUE) /\ pc = "off" /\ clock = 0
    /\ cache = [key \in {WeatherKey, ForecastKey} |-> NoFile]
    /\ net = <<>> /\ out = <<>> /\ status = "running"
    /\ fetched = Null /\ snapshot = Null /\ shown = Null
    /\ enrich = NoEnrichment /\ raised = NoRaise /\ calls = 0

InitCoerce ==
    /\ arg \in CoerceValues \cup {Absent}
    /\ blk \in {"dict", "null"}
    /\ dflt \in {I(0), F(150)}
    /\ cop = "none"
    /\ cres = NoCall
    /\ http = 200
    /\ msg = Absent
    /\ ParseIdle
    /\ RunIdle
    /\ FormatIdle

Called(name, result) ==
    /\ cop = "none"
    /\ cop' = name
    /\ cres' = result
    /\ UNCHANGED <<arg, blk, dflt, http, msg, parseVars, formatVars, runVars>>

\* _optional_int(block.get(key))
CallOptionalInt == Called("_optional_int", _optional_int(DictGet(arg)))
CallOptionalFloat == Called("_optional_float", _optional_float(DictGet(arg)))
CallIntWithDefault == Called("_int_with_default", _int_with_default(DictGet(arg), dflt))
CallFloatWithDefault == Called("_float_with_default", _float_with_default(DictGet(arg), dflt))
CallRequiredInt == Called("_required_int", _required_int(blk, arg))
CallRequiredFloat == Called("_required_float", _required_float(blk, arg))
\* _safe_get(payload.get(block), key)
CallSafeGet == Called("_safe_get", Ok(_safe_get(blk, arg)))

NextCoerce ==
    \/ CallOptionalInt
    \/ CallOptionalFloat
    \/ CallIntWithDefault
    \/ CallFloatWithDefault
    \/ CallRequiredInt
    \/ CallRequiredFloat
    \/ CallSafeGet

SpecCoerce == InitCoerce /\ [][NextCoerce]_vars

(***************************************************************************)
(* Inputs of the parser: the base payload with up to MaxEdits keys or      *)
(* containers changed                                                      *)
(***************************************************************************)
MaxEdits == 2

NumericKeys == {"temp", "feels_like", "pressure", "humidity", "temp_min", "temp_max",
                "speed", "deg", "clouds_all", "visibility", "sunrise", "timezone"}
NumericValues == {Absent, Null, I(15), F(157), Inf, Huge, S(<<"1", "2">>), S(<<"x">>), ListV}
DescriptionValues == {Absent, Null, S(<<>>), S(<<" ">>), I(5),
                      S(<<" ", "C", "l", "e", "a", "r", " ", "S", "k", "y", " ">>)}
NameValues == {Absent, S(<<>>), S(<<"S", "p", "b">>)}

EditValues(f) ==
    CASE f \in NumericKeys -> NumericValues
      [] f = "description" -> DescriptionValues
      [] f = "name" -> NameValues
      [] f \in {"mainS", "sysS", "windS", "cloudsS"} -> BlockShapes
      [] f = "weatherS" -> WeatherShapes
      [] f = "w0S" -> ElementShapes
EditKeys == NumericKeys \cup {"description", "name", "mainS", "sysS", "windS", "cloudsS",
                              "weatherS", "w0S"}

InitParse ==
    /\ payload = BasePayload
    /\ edits = 0
    /\ presult = NoCall
    /\ CoerceIdle
    /\ RunIdle
    /\ FormatIdle

\* The API answers with one more key or container changed.
EditPayload ==
    /\ presult.st = "none"
    /\ edits < MaxEdits
    /\ \E f \in EditKeys : \E v \in EditValues(f) :
          payload' = Normal([payload EXCEPT ![f] = v])
    /\ edits' = edits + 1
    /\ UNCHANGED <<presult, coerceVars, runVars, formatVars>>

ParsePayload ==
    /\ presult.st = "none"
    /\ presult' = parse_weather_payload(payload, S(Moscow), Metric)
    /\ UNCHANGED <<payload, edits, coerceVars, runVars, formatVars>>

NextParse == EditPayload \/ ParsePayload

SpecParse == InitParse /\ [][NextParse]_vars

(***************************************************************************)
(* Responses to a status code and a message: check_for_api_error and the   *)
(* requests of the fetch functions                                         *)
(***************************************************************************)
HttpCodes == {200, 404}
Messages == {Absent, Null, S(<<>>), S(<<"n", "o">>)}
CodeValues ==
    CoerceValues \cup {Absent, I(200), I(404), F(2000), F(2005), F(4040),
                       S(<<"2", "0", "0">>), S(<<" ", "2", "0", "0">>), S(<<"4", "0", "4">>),
                       S(<<"2", "0", "0", ".", "0">>)}

\* The answer the status code and message stand for
Answer == Response("json", http, [BasePayload EXCEPT !.cod = arg, !.message = msg])

InitCheck ==
    /\ arg \in CodeValues
    /\ http \in HttpCodes
    /\ msg \in Messages
    /\ blk = "dict" /\ dflt = Null /\ cop = "none" /\ cres = NoCall
    /\ ParseIdle
    /\ RunIdle
    /\ FormatIdle

CallCheckForApiError == Called("check_for_api_error", check_for_api_error(Answer.body, http))
CallFetchWeather ==
    Called("fetch_weather", fetch_weather(NoFile, 0, FALSE, Answer, TRUE).result)
CallFetchForecast ==
    Called("fetch_forecast", fetch_forecast(NoFile, 0, FALSE, Answer, TRUE).result)
CallFetchOneCall == Called("fetch_onecall", fetch_onecall(Answer))
CallFetchAirQuality == Called("fetch_air_quality", fetch_air_quality(Answer))

NextCheck ==
    \/ CallCheckForApiError
    \/ CallFetchWeather
    \/ CallFetchForecast
    \/ CallFetchOneCall
    \/ CallFetchAirQuality

SpecCheck == InitCheck /\ [][NextCheck]_vars

(***************************************************************************)
(* Calls of fetch_weather and fetch_forecast against the cache directory   *)
(* as time passes                                                          *)
(***************************************************************************)
MaxCalls == 2
\* The minutes at which a call may happen: around both time-to-live values
ClockPoints == {0, 9, 10, 11, 29, 30, 31}

NetError == Response("neterror", 0, Null)
NonJson == Response("nonjson", 200, Null)

NotFound == S(<<"n", "o">>)
NotFoundBody == [EmptyPayload EXCEPT !.cod = S(<<"4", "0", "4">>), !.message = NotFound]
GoodForecast ==
    ForecastBody(S(<<"2", "0", "0">>), Absent, "list",
                 <<ForecastEntry(I(3600)), ForecastEntry(I(14400))>>)

CacheWeatherResponses ==
    {NetError,
     Response("json", 200, BasePayload),
     Response("json", 200, [BasePayload EXCEPT !.cod = F(2005)]),
     Response("json", 200, EmptyPayload),
     Response("json", 404, NotFoundBody)}
CacheForecastResponses ==
    {NetError,
     Response("json", 200, GoodForecast),
     Response("json", 200, EmptyForecast),
     Response("json", 404, ForecastBody(S(<<"4", "0", "4">>), NotFound, "absent", <<>>))}

InitCache ==
    /\ pc = "cache"
    /\ clock = 0
    /\ cache \in [{WeatherKey, ForecastKey} -> {NoFile, Unreadable}]
    /\ cop = "none" /\ cres = NoCall
    /\ net = <<>>
    /\ calls = 0
    /\ opts = Legacy(TRUE)
    /\ out = <<>> /\ status = "running"
    /\ fetched = Null /\ snapshot = Null /\ shown = Null
    /\ enrich = NoEnrichment /\ raised = NoRaise
    /\ arg = Absent /\ blk = "dict" /\ dflt = Null /\ http = 200 /\ msg = Absent
    /\ ParseIdle
    /\ FormatIdle

\* Time passes between two calls.
Tick ==
    /\ pc = "cache"
    /\ \E later \in ClockPoints : later > clock /\ clock' = later
    /\ UNCHANGED <<arg, blk, dflt, cop, cres, http, msg, parseVars, formatVars, opts, pc, cache, net, out,
                   status, fetched, snapshot, shown, enrich, raised, calls>>

\* A call of a fetch function: net holds the requests the call issued, opts
\* the use_cache it was given (as main derives it from --no-cache)
FetchCalled(name, endpoint, key, use_cache, got) ==
    /\ pc = "cache"
    /\ calls < MaxCalls
    /\ cop' = name
    /\ cres' = got.result
    /\ net' = IF got.requested THEN <<endpoint>> ELSE <<>>
    /\ cache' = [cache EXCEPT ![key] = got.file]
    /\ opts' = Flags(FALSE, FALSE, FALSE, FALSE, ~use_cache)
    /\ calls' = calls + 1
    /\ UNCHANGED <<arg, blk, dflt, http, msg, parseVars, formatVars, pc, clock, out, status, fetched,
                   snapshot, shown, enrich, raised>>

CachedFetchWeather ==
    \E use_cache \in BOOLEAN, response \in CacheWeatherResponses, written \in BOOLEAN :
        \E got \in {fetch_weather(cache[WeatherKey], clock, use_cache, response, written)} :
            FetchCalled("fetch_weather", "weather", WeatherKey, use_cache, got)

CachedFetchForecast ==
    \E use_cache \in BOOLEAN, response \in CacheForecastResponses, written \in BOOLEAN :
        \E got \in {fetch_forecast(cache[ForecastKey], clock, use_cache, response, written)} :
            FetchCalled("fetch_forecast", "forecast", ForecastKey, use_cache, got)

\* load_from_cache(cache_key) with the default max age, as fetch_weather calls it
LoadWeather ==
    /\ pc = "cache"
    /\ cop' = "load_weather"
    /\ cres' = Ok(load_from_cache(cache[WeatherKey], clock, WeatherTtl))
    /\ UNCHANGED <<arg, blk, dflt, http, msg, parseVars, formatVars, runVars>>

\* load_from_cache(cache_key, max_age_minutes=30), as fetch_forecast calls it
LoadForecast ==
    /\ pc = "cache"
    /\ cop' = "load_forecast"
    /\ cres' = Ok(load_from_cache(cache[ForecastKey], clock, ForecastTtl))
    /\ UNCHANGED <<arg, blk, dflt, http, msg, parseVars, formatVars, runVars>>

NextCache ==
    \/ Tick
    \/ CachedFetchWeather
    \/ CachedFetchForecast
    \/ LoadWeather
    \/ LoadForecast

SpecCache == InitCache /\ [][NextCache]_vars

(***************************************************************************)
(* A run of main (or of the legacy script) against the API and a cache     *)
(* directory an earlier run may have filled                                *)
(***************************************************************************)
WeatherResponses ==
    {NetError, NonJson,
     Response("json", 404, NotFoundBody),
     Response("json", 200, BasePayload),
     Response("json", 200, EmptyPayload),
     Response("json", 200, [BasePayload EXCEPT !.cod = S(<<"x">>)]),
     Response("json", 200, [BasePayload EXCEPT !.temp = Absent]),
     Response("json", 200, [BasePayload EXCEPT !.temp = S(<<"x">>)]),
     Response("json", 200, [BasePayload EXCEPT !.visibility = Inf]),
     Response("json", 200, [BasePayload EXCEPT !.pressure = Huge]),
     Response("json", 200, [BasePayload EXCEPT !.lat = F(0)]),
     Response("json", 200, Normal([BasePayload EXCEPT !.coordS = "null"]))}

AirResponses ==
    {NetError, NonJson,
     Response("json", 200, AirBody("dict", "list", "dict", "dict", I(2), Components(F(125), F(203)))),
     Response("json", 401, AirBody("dict", "absent", "dict", "absent", Absent, Absent)),
     Response("json", 200, AirBody("list", "absent", "dict", "absent", Absent, Absent))}

Storm == [event |-> S(<<"s">>), description |-> S(<<"x">>), start |-> I(60), end |-> I(120)]
OneCallResponses ==
    {NetError,
     Response("json", 200, OneCallBody(Absent, Absent, "dict", F(52), "list", <<Storm>>)),
     Response("json", 200, OneCallBody(Absent, Absent, "dict", Absent, "list", <<>>)),
     Response("json", 401, OneCallBody(I(401), NotFound, "absent", Absent, "absent", <<>>)),
     Response("json", 200, OneCallBody(Inf, Absent, "absent", Absent, "absent", <<>>)),
     Response("json", 200, OneCallBody(Absent, Absent, "null", Absent, "absent", <<>>))}

ForecastResponses ==
    {NetError,
     Response("json", 200, GoodForecast),
     Response("json", 200, ForecastBody(I(200), Absent, "list", <<ForecastEntry(I(3600))>>)),
     Response("json", 404, ForecastBody(S(<<"4", "0", "4">>), NotFound, "absent", <<>>)),
     Response("json", 200, ForecastBody(I(200), Absent, "list", <<ForecastEntry(Absent)>>))}

InitRun ==
    /\ opts = Legacy(TRUE)
    /\ pc = "idle"
    /\ clock = 0
    /\ cache \in {[key \in {WeatherKey, ForecastKey} |->
                      IF key = WeatherKey THEN weather ELSE forecast] :
                  weather \in {NoFile, File(0, BasePayload)},
                  forecast \in {NoFile, File(0, GoodForecast)}}
    /\ net = <<>> /\ out = <<>> /\ status = "running"
    /\ fetched = Null /\ snapshot = Null /\ shown = Null
    /\ enrich = NoEnrichment /\ raised = NoRaise
    /\ calls = 0
    /\ CoerceIdle
    /\ ParseIdle
    /\ FormatIdle

\* The command is run with some flags; a city is given.
StartRun ==
    /\ pc = "idle"
    /\ opts' \in OptionSets
    /\ pc' = "resolve_api_key"
    /\ UNCHANGED <<clock, cache, net, out, status, fetched, snapshot, shown, enrich, raised,
                   calls, coerceVars, parseVars, formatVars>>

\* resolve_api_key: main.py falls back to its built-in key
MainResolveApiKey ==
    /\ pc = "resolve_api_key"
    /\ IF opts.api_key
       THEN pc' = "fetch_weather" /\ UNCHANGED <<out, status, raised>>
       ELSE Fail("resolve_api_key", Raise("NoApiKey"))
    /\ UNCHANGED <<opts, clock, cache, net, fetched, snapshot, shown, enrich, calls,
                   coerceVars, parseVars, formatVars>>

MainFetchWeather ==
    /\ pc = "fetch_weather"
    /\ \E response \in WeatherResponses, written \in BOOLEAN :
          \E got \in {fetch_weather(cache[WeatherKey], clock, ~opts.no_cache, response, written)} :
              /\ net' = IF got.requested THEN Append(net, "weather") ELSE net
              /\ cache' = [cache EXCEPT ![WeatherKey] = got.file]
              /\ IF got.result.st = "ok"
                 THEN fetched' = got.result.val /\ pc' = "parse" /\ UNCHANGED <<out, status, raised>>
                 ELSE Fail("fetch_weather", got.result) /\ UNCHANGED fetched
    /\ calls' = calls + 1
    /\ UNCHANGED <<opts, clock, snapshot, shown, enrich, coerceVars, parseVars, formatVars>>

MainParseWeather ==
    /\ pc = "parse"
    /\ \E parsed \in {parse_weather_payload(fetched, S(Moscow), Metric)} :
          IF parsed.st = "ok"
          THEN snapshot' = parsed.val /\ pc' = AfterParse(opts) /\ UNCHANGED <<out, status, raised>>
          ELSE Fail("parse_weather_payload", parsed) /\ UNCHANGED snapshot
    /\ UNCHANGED <<opts, clock, cache, net, fetched, shown, enrich, calls, coerceVars, parseVars, formatVars>>

\* payload.get("coord", {}).get(key)
Coordinate(p, leaf) ==
    IF p.coordS \in {"null", "list"} THEN Raise("AttributeError") ELSE Ok(DictGet(leaf))

\* An exception inside the enrichment block: the handlers that apply, from
\* the innermost (inner is FALSE outside the try of the one-call step)
Handled(r, inner) ==
    IF inner /\ ExceptWeatherError(r)
    THEN out' = out /\ pc' = "report" /\ UNCHANGED <<status, raised>>
    ELSE IF ExceptException(r)
    THEN out' = Append(out, "warning") /\ pc' = "report" /\ UNCHANGED <<status, raised>>
    ELSE Fail("enrichment", r)

\* The enrichment block up to the air-quality merge
MainAirQuality ==
    /\ pc = "air"
    /\ \E lat \in {Coordinate(fetched, fetched.lat)}, lon \in {Coordinate(fetched, fetched.lon)} :
          IF lat.st = "raise"
          THEN /\ Handled(lat, FALSE)
               /\ enrich' = [enrich EXCEPT !.air = "no_coord"]
               /\ UNCHANGED <<net, snapshot, calls>>
          ELSE IF ~(Truthy(lat.val) /\ Truthy(lon.val))
          THEN /\ enrich' = [enrich EXCEPT !.air = "skipped"]
               /\ pc' = "report"
               /\ UNCHANGED <<net, out, status, raised, snapshot, calls>>
          ELSE \E response \in AirResponses :
                  \E air_data \in {fetch_air_quality(response)} :
                  \E merged \in {IF air_data.st = "raise" THEN air_data
                                 ELSE add_air_quality_to_snapshot(snapshot, air_data.val)} :
                      /\ net' = Append(net, "air")
                      /\ calls' = calls + 1
                      /\ enrich' = [enrich EXCEPT !.air =
                                       IF air_data.st = "raise" THEN "fetch_failed"
                                       ELSE IF merged.st = "raise" THEN "merge_failed" ELSE "ok"]
                      /\ IF merged.st = "raise"
                         THEN Handled(merged, FALSE) /\ UNCHANGED snapshot
                         ELSE /\ snapshot' = merged.val
                              /\ pc' = "onecall"
                              /\ UNCHANGED <<out, status, raised>>
    /\ UNCHANGED <<opts, clock, cache, fetched, shown, coerceVars, parseVars, formatVars>>

\* The inner try of the enrichment block: except WeatherError: pass
MainOneCall ==
    /\ pc = "onecall"
    /\ \E response \in OneCallResponses :
          \E onecall_data \in {fetch_onecall(response)} :
          \E merged \in {IF onecall_data.st = "raise" THEN onecall_data
                         ELSE add_uv_and_alerts_to_snapshot(snapshot, onecall_data.val)} :
              /\ net' = Append(net, "onecall")
              /\ enrich' = [enrich EXCEPT !.onecall =
                               IF onecall_data.st = "raise" THEN "fetch_failed"
                               ELSE IF merged.st = "raise" THEN "merge_failed" ELSE "ok"]
              /\ IF merged.st = "raise"
                 THEN Handled(merged, TRUE) /\ UNCHANGED snapshot
                 ELSE /\ snapshot' = merged.val
                      /\ pc' = "report"
                      /\ UNCHANGED <<out, status, raised>>
    /\ calls' = calls + 1
    /\ UNCHANGED <<opts, clock, cache, fetched, shown, coerceVars, parseVars, formatVars>>

\* print(format_weather(snapshot, ...))
MainPrintReport ==
    /\ pc = "report"
    /\ IF FormatWeatherRaises(snapshot)
       THEN Fail("format_weather", Raise("OverflowError")) /\ UNCHANGED shown
       ELSE /\ out' = Append(out, "report")
            /\ shown' = snapshot
            /\ pc' = IF opts.script = "legacy" THEN "thanks" ELSE AfterReport(opts)
            /\ UNCHANGED <<status, raised>>
    /\ UNCHANGED <<opts, clock, cache, net, fetched, snapshot, enrich, calls, coerceVars, parseVars, formatVars>>

\* fetch_forecast and parse_forecast_payload, as main calls them three times
ForecastItems(response, written) ==
    LET Parsed(got) ==
            [got |-> got,
             at |-> IF got.result.st = "raise" THEN "fetch_forecast" ELSE "parse_forecast_payload",
             items |-> IF got.result.st = "raise" THEN got.result
                       ELSE parse_forecast_payload(got.result.val, snapshot.tz)]
    IN  Parsed(fetch_forecast(cache[ForecastKey], clock, ~opts.no_cache, response, written))

\* if args.forecast: the daily forecast
MainForecast ==
    /\ pc = "forecast"
    /\ \E response \in ForecastResponses, written \in BOOLEAN :
          \E f \in {ForecastItems(response, written)} :
              /\ net' = IF f.got.requested THEN Append(net, "forecast") ELSE net
              /\ cache' = [cache EXCEPT ![ForecastKey] = f.got.file]
              /\ IF f.items.st = "ok"
                 THEN /\ out' = Append(out, "daily")
                      /\ pc' = AfterForecast(opts)
                      /\ UNCHANGED <<status, raised>>
                 ELSE Fail(f.at, f.items)
    /\ calls' = calls + 1
    /\ UNCHANGED <<opts, clock, fetched, snapshot, shown, enrich, coerceVars, parseVars, formatVars>>

\* create_temperature_chart is empty below two items, and then not printed
Chart(items) == IF Len(items) >= 2 THEN <<"chart">> ELSE <<>>

\* if args.hourly: ... elif args.chart and args.forecast: ...
MainHourly ==
    /\ pc = "hourly"
    /\ \E response \in ForecastResponses, written \in BOOLEAN :
          \E f \in {ForecastItems(response, written)} :
              /\ net' = IF f.got.requested THEN Append(net, "forecast") ELSE net
              /\ cache' = [cache EXCEPT ![ForecastKey] = f.got.file]
              /\ IF f.items.st = "ok"
                 THEN /\ out' = out \o (IF opts.hourly THEN <<"hourly">> ELSE <<>>)
                                    \o (IF opts.chart THEN Chart(f.items.val) ELSE <<>>)
                      /\ pc' = "thanks"
                      /\ UNCHANGED <<status, raised>>
                 ELSE Fail(f.at, f.items)
    /\ calls' = calls + 1
    /\ UNCHANGED <<opts, clock, fetched, snapshot, shown, enrich, coerceVars, parseVars, formatVars>>

\* The closing line and return 0
MainFinish ==
    /\ pc = "thanks"
    /\ out' = Append(out, "thanks")
    /\ status' = "0"
    /\ pc' = "done"
    /\ UNCHANGED <<opts, clock, cache, net, fetched, snapshot, shown, enrich, raised, calls,
                   coerceVars, parseVars, formatVars>>

NextRun ==
    \/ StartRun
    \/ MainResolveApiKey
    \/ MainFetchWeather
    \/ MainParseWeather
    \/ MainAirQuality
    \/ MainOneCall
    \/ MainPrintReport
    \/ MainForecast
    \/ MainHourly
    \/ MainFinish

SpecRun == InitRun /\ [][NextRun]_vars

(***************************************************************************)
(* Cached fetches for several cities, unit systems and languages: --lang   *)
(* and the city are free texts, --units is one of the keys of UNITS_LABELS *)
(***************************************************************************)
MaxFetches == 2
Imperial == "imperial"
KeyCities == {<<"M">>, <<"M", "_", Metric>>}
KeyUnits == {Metric, Imperial}
KeyLanguages == {Russian, <<Metric, "_">> \o Russian}
KeyKinds == {"weather", "forecast"}
AllKeys ==
    {CacheKey(kind, city, units, language) :
        kind \in KeyKinds, city \in KeyCities, units \in KeyUnits, language \in KeyLanguages}

\* What the API answers a request with: a payload of that kind for that
\* city, in those units and that language
AnswerTo(kind, city, units, language) ==
    [cod |-> I(200), message |-> Absent,
     kind |-> kind, city |-> city, units |-> units, lang |-> language]

InitKey ==
    /\ pc = "keys"
    /\ clock = 0
    /\ cache = [key \in AllKeys |-> NoFile]
    /\ cop = "none" /\ cres = NoCall
    /\ net = <<>>
    /\ calls = 0
    /\ opts = Legacy(TRUE)
    /\ out = <<>> /\ status = "running"
    /\ fetched = Null /\ snapshot = Null /\ shown = Null
    /\ enrich = NoEnrichment /\ raised = NoRaise
    /\ arg = Absent /\ blk = "dict" /\ dflt = Null /\ http = 200 /\ msg = Absent
    /\ ParseIdle
    /\ FormatIdle

\* fetch_weather or fetch_forecast with use_cache for a city, a unit system
\* and a language; the API answers, and the cache file is written
KeyedFetch(name, kind, ttl) ==
    /\ pc = "keys"
    /\ calls < MaxFetches
    /\ \E city \in KeyCities, units \in KeyUnits, language \in KeyLanguages :
          \E key \in {CacheKey(kind, city, units, language)} :
          \E got \in {CachedFetch(cache[key], clock, ttl, TRUE,
                                  Response("json", 200, AnswerTo(kind, city, units, language)),
                                  TRUE)} :
              /\ cop' = name
              /\ cres' = got.result
              /\ net' = IF got.requested THEN <<kind>> ELSE <<>>
              /\ cache' = [cache EXCEPT ![key] = got.file]
              /\ opts' = [Flags(FALSE, FALSE, FALSE, FALSE, FALSE) EXCEPT
                             !.city = city, !.units = units, !.lang = language]
    /\ calls' = calls + 1
    /\ UNCHANGED <<arg, blk, dflt, http, msg, parseVars, formatVars, pc, clock, out, status,
                   fetched, snapshot, shown, enrich, raised>>

KeyedFetchWeather == KeyedFetch("fetch_weather", "weather", WeatherTtl)
KeyedFetchForecast == KeyedFetch("fetch_forecast", "forecast", ForecastTtl)

NextKey == KeyedFetchWeather \/ KeyedFetchForecast

SpecKey == InitKey /\ [][NextKey]_vars

(***************************************************************************)
(* Forecast items, appended one at a time, and the two forecast formatters *)
(* applied to them                                                         *)
(***************************************************************************)
MaxItems == 6

\* 18:00 of the tenth day, local time
FirstTime == 10 * DaySeconds + 64800
\* The next item is 18 hours earlier or 21 hours later: of the same day, of
\* a day seen before or of a new day
TimeSteps == {-64800, 75600}
ItemValues ==
    {[temperature |-> 100, description |-> Rain, precipitation_probability |-> 500],
     [temperature |-> 200, description |-> Fog, precipitation_probability |-> 0]}
\* The orders a set of the two descriptions can be iterated in
SetOrders == {<<Rain, Fog>>, <<Fog, Rain>>}

InitForecast ==
    /\ arg = Absent /\ blk = "dict" /\ dflt = Null /\ cop = "none" /\ cres = NoCall
    /\ http = 200 /\ msg = Absent
    /\ ParseIdle
    /\ RunIdle
    /\ FormatIdle

\* One more item of the forecast list
AddItem ==
    /\ cop = "none"
    /\ Len(forecast_items) < MaxItems
    /\ \E step \in TimeSteps, v \in ItemValues :
          \E seconds \in {IF forecast_items = <<>> THEN FirstTime
                          ELSE forecast_items[Len(forecast_items)].timestamp.n + step} :
              forecast_items' = Append(forecast_items,
                  ForecastItem(LocalTime(seconds, I(0)), v.temperature, v.description,
                               v.precipitation_probability))
    /\ UNCHANGED <<color, rows, coerceVars, parseVars, runVars>>

Formatted(name, with_color, result) ==
    /\ cop = "none"
    /\ cop' = name
    /\ color' = with_color
    /\ rows' = result
    /\ UNCHANGED <<forecast_items, arg, blk, dflt, cres, http, msg, parseVars, runVars>>

CallFormatDaily ==
    \E with_color \in BOOLEAN, set_order \in SetOrders :
        Formatted("format_daily_forecast", with_color,
                  format_daily_forecast(forecast_items, Metric, with_color, set_order))

CallFormatHourly ==
    \E with_color \in BOOLEAN :
        Formatted("format_hourly_forecast", with_color,
                  format_hourly_forecast(forecast_items, Metric, with_color))

NextForecast ==
    \/ AddItem
    \/ CallFormatDaily
    \/ CallFormatHourly

SpecForecast == InitForecast /\ [][NextForecast]_vars

(***************************************************************************)
(* The report of a snapshot: format_weather applied to what                *)
(* parse_weather_payload and the two merges can hand to it                 *)
(***************************************************************************)
BaseSnapshot == parse_weather_payload(BasePayload, S(Moscow), Metric).val

ReportTemperatures == {F(-50), F(50), F(150), F(250), F(350)}
ReportDirections == {Null, I(180)}
ReportUv == {Null, F(25), F(52)}
ReportAqi == {Null, ListV} \cup {I(aqi) : aqi \in -1..6}
ReportComponents == {Components(Absent, Absent), Components(F(125), Absent), Components(F(125), F(203))}
ReportAlerts == {Null, Alerts(<<Storm>>)}

\* uv_index and air_quality_index come from the payloads as they are:
\* comparing a text or a container with a number, and looking an unhashable
\* value up in a dict, raise TypeError
LabelRaises(snap) ==
    \/ snap.uv_index.k \in {"str", "list", "dict"}
    \/ snap.air_quality_index.k \in {"list", "dict"}

\* format_weather: the rows, or the exception
Report(snap, with_color) ==
    IF FormatWeatherRaises(snap) THEN Raise("OverflowError")
    ELSE IF LabelRaises(snap) THEN Raise("TypeError")
    ELSE Ok(format_weather(snap, with_color))

InitReport ==
    /\ \E temperature \in ReportTemperatures, wind_direction \in ReportDirections,
          uv_index \in ReportUv, air_quality_index \in ReportAqi,
          components \in ReportComponents, alerts \in ReportAlerts :
          snapshot = [BaseSnapshot EXCEPT
                         !.temperature = temperature,
                         !.wind_direction = wind_direction,
                         !.uv_index = uv_index,
                         !.air_quality_index = air_quality_index,
                         !.air_quality_components =
                             IF air_quality_index = Null THEN Null ELSE components,
                         !.weather_alerts = alerts]
    /\ arg = Absent /\ blk = "dict" /\ dflt = Null /\ cop = "none" /\ cres = NoCall
    /\ http = 200 /\ msg = Absent
    /\ ParseIdle
    /\ FormatIdle
    /\ opts = Legacy(TRUE) /\ pc = "off" /\ clock = 0
    /\ cache = [key \in {WeatherKey, ForecastKey} |-> NoFile]
    /\ net = <<>> /\ out = <<>> /\ status = "running"
    /\ fetched = Null /\ shown = Null
    /\ enrich = NoEnrichment /\ raised = NoRaise /\ calls = 0

\* print(format_weather(snapshot, use_color=not args.no_color))
CallFormatWeather ==
    /\ cop = "none"
    /\ \E with_color \in BOOLEAN :
          \E report \in {Report(snapshot, with_color)} :
              /\ color' = with_color
              /\ cres' = IF report.st = "ok" THEN Ok(Null) ELSE report
              /\ rows' = IF report.st = "ok" THEN report.val ELSE <<>>
    /\ cop' = "format_weather"
    /\ UNCHANGED <<forecast_items, arg, blk, dflt, http, msg, parseVars, runVars>>

NextReport == CallFormatWeather

SpecReport == InitReport /\ [][NextReport]_vars

(***************************************************************************)
(* The helpers of the report, each applied to one input: the humidity bar  *)
(* to a humidity and a width, the compass to a degree value, the UV label  *)
(* to a UV index                                                           *)
(***************************************************************************)
MaxWidth == 50
MaxDegrees == 400
MaxUv == 125

Humidities == {I(humidity) : humidity \in 0..100}
Widths == {I(width) : width \in 0..MaxWidth}
Degrees == {I(degrees) : degrees \in -MaxDegrees..MaxDegrees}
\* UV indexes, in tenths and whole
UvValues == {F(tenths) : tenths \in -5..MaxUv} \cup {I(0), I(2), I(3), I(11), I(12), Inf, NaN}

\* arg is the humidity, the degree value or the UV index; dflt is the width
InitWidget ==
    /\ \/ arg \in Humidities /\ dflt \in Widths
       \/ arg \in Degrees \cup UvValues /\ dflt = Null
    /\ blk = "dict" /\ cop = "none" /\ cres = NoCall
    /\ http = 200 /\ msg = Absent
    /\ ParseIdle
    /\ RunIdle
    /\ FormatIdle

CallHumidityBar ==
    /\ cop = "none" /\ arg \in Humidities /\ dflt \in Widths
    /\ cop' = "create_humidity_bar"
    /\ rows' = <<create_humidity_bar(arg.n, dflt.n)>>
    /\ UNCHANGED <<forecast_items, color, arg, blk, dflt, cres, http, msg, parseVars, runVars>>

CallWindDirection ==
    /\ arg \in Degrees /\ dflt = Null
    /\ Called("_format_wind_direction", Ok(Text(_format_wind_direction(arg.n))))

CallUvLabel ==
    /\ arg \in UvValues /\ dflt = Null
    /\ Called("get_uv_label", Ok(get_uv_label(arg)))

NextWidget ==
    \/ CallHumidityBar
    \/ CallWindDirection
    \/ CallUvLabel

SpecWidget == InitWidget /\ [][NextWidget]_vars

(***************************************************************************)
(* The temperature chart of forecast items three hours apart               *)
(***************************************************************************)
MaxSamples == 9

\* 10.0, 15.0 and 20.0 degrees
ChartTemperatures == {100, 150, 200}

InitChart == InitForecast

AddSample ==
    /\ cop = "none"
    /\ Len(forecast_items) < MaxSamples
    /\ \E temperature \in ChartTemperatures :
          forecast_items' = Append(forecast_items,
              ForecastItem(LocalTime(FirstTime + 10800 * Len(forecast_items), I(0)),
                           temperature, Rain, 0))
    /\ UNCHANGED <<color, rows, coerceVars, parseVars, runVars>>

\* chart = create_temperature_chart(forecast_items)
CallCreateChart ==
    Formatted("create_temperature_chart", FALSE, create_temperature_chart(forecast_items))

NextChart ==
    \/ AddSample
    \/ CallCreateChart

SpecChart == InitChart /\ [][NextChart]_vars

(***************************************************************************)
(* Properties of the parser and of the coercion layer                      *)
(***************************************************************************)
Parsed == presult.st # "none"
Snapshot == presult.val

\* C1: a payload without the key "main" or without the key "sys" makes
\* parse_weather_payload fail with the MalformedResponse error and yield no
\* snapshot, whatever the rest of the payload holds.
C1_MissingBlockIsMalformed ==
    (Parsed /\ (payload.mainS = "absent" \/ payload.sysS = "absent"))
        => presult = Raise("MalformedResponse")

C1_Witness ==
    /\ Parsed
    /\ payload.sysS = "absent"
    /\ payload.mainS = "dict"
    /\ payload.temp = Inf
    /\ presult = Raise("MalformedResponse")

IntCoercible(v) == PyInt(v).st = "ok"
FloatCoercible(v) == PyFloat(v).st = "ok"

\* C2: _optional_int and _optional_float return None for a null or absent
\* value, fail with InvalidValue for every non-null value that int() or
\* float() cannot convert, and the *_with_default functions return the
\* default exactly when the optional coercion yields None and propagate
\* its failure otherwise.
C2_OptionalCoercion ==
    LET value == DictGet(arg)
    IN  /\ cop = "_optional_int" =>
              IF value = Null THEN cres = Ok(Null)
              ELSE IF IntCoercible(value) THEN cres = PyInt(value)
              ELSE cres = Raise("InvalidValue")
        /\ cop = "_optional_float" =>
              IF value = Null THEN cres = Ok(Null)
              ELSE IF FloatCoercible(value) THEN cres = PyFloat(value)
              ELSE cres = Raise("InvalidValue")
        /\ cop = "_int_with_default" =>
              IF value = Null THEN cres = Ok(dflt)
              ELSE IF IntCoercible(value) THEN cres = PyInt(value)
              ELSE cres = Raise("InvalidValue")
        /\ cop = "_float_with_default" =>
              IF value = Null THEN cres = Ok(dflt)
              ELSE IF FloatCoercible(value) THEN cres = PyFloat(value)
              ELSE cres = Raise("InvalidValue")

\* C3: on a mapping, _required_float and _required_int fail with
\* MissingField when the key is absent, with InvalidValue when the value
\* is null or cannot be converted, and return the converted value
\* otherwise.
C3_RequiredCoercion ==
    /\ (cop = "_required_int" /\ blk = "dict") =>
          IF arg = Absent THEN cres = Raise("MissingField")
          ELSE IF IntCoercible(arg) THEN cres = PyInt(arg)
          ELSE cres = Raise("InvalidValue")
    /\ (cop = "_required_float" /\ blk = "dict") =>
          IF arg = Absent THEN cres = Raise("MissingField")
          ELSE IF FloatCoercible(arg) THEN cres = PyFloat(arg)
          ELSE cres = Raise("InvalidValue")

\* C4: in every snapshot, temperature_min (temperature_max) is the
\* snapshot's temperature when temp_min (temp_max) is absent or null, and
\* is the payload's value converted to float, not clamped against the
\* temperature, when present; main = {"temp": 15.0} gives 15.0 for both.
C4_BoundsDefaultToTemperature ==
    (Parsed /\ presult.st = "ok") =>
        /\ Snapshot.temperature_min =
              IF DictGet(payload.temp_min) = Null THEN Snapshot.temperature
              ELSE PyFloat(payload.temp_min).val
        /\ Snapshot.temperature_max =
              IF DictGet(payload.temp_max) = Null THEN Snapshot.temperature
              ELSE PyFloat(payload.temp_max).val
        /\ (payload.temp = F(150) /\ payload.temp_min = Absent /\ payload.temp_max = Absent)
              => (Snapshot.temperature_min = F(150) /\ Snapshot.temperature_max = F(150))

\* temp_min is absent and defaults; temp_max is present, passes through
\* and lies below the temperature.
C4_Witness ==
    /\ Parsed /\ presult.st = "ok"
    /\ payload.temp_min = Absent
    /\ Snapshot.temperature = F(157)
    /\ Snapshot.temperature_min = F(157)
    /\ payload.temp_max = S(<<"1", "2">>)
    /\ Snapshot.temperature_max = F(120)

\* A payload that parses once its humidity is set
ValidButForHumidity(p) ==
    parse_weather_payload([p EXCEPT !.humidity = I(50)], S(Moscow), Metric).st = "ok"

\* C5 as stated: without "humidity" in the "main" block of an otherwise
\* valid payload the parse succeeds and the snapshot's humidity is 0.
C5_HumidityDefaultsToZero ==
    (Parsed /\ payload.humidity = Absent /\ ValidButForHumidity(payload))
        => (presult.st = "ok" /\ Snapshot.humidity = I(0))

\* C5 amended: without "humidity" in the "main" block of an otherwise
\* valid payload the parse fails with MissingField and yields no snapshot;
\* cloudiness, not humidity, defaults to 0 when absent.
C5_HumidityIsRequired ==
    /\ (Parsed /\ payload.humidity = Absent /\ ValidButForHumidity(payload))
          => presult = Raise("MissingField")
    /\ (Parsed /\ presult.st = "ok" /\ DictGet(payload.clouds_all) = Null)
          => Snapshot.cloudiness = I(0)

C5_Witness ==
    /\ Parsed
    /\ payload.humidity = Absent
    /\ payload.clouds_all = Absent
    /\ ValidButForHumidity(payload)
    /\ presult = Raise("MissingField")

\* C6: the description of a snapshot is never the empty text.
C6_DescriptionNeverEmpty ==
    (Parsed /\ presult.st = "ok") => Snapshot.description # <<>>

(***************************************************************************)
(* Properties of the cache                                                 *)
(***************************************************************************)
Age(key) == clock - cache[key].mtime

\* What load_from_cache is said to return for a key and its time to live
Expired(key, ttl) ==
    \/ cache[key].state = "missing"
    \/ cache[key].state = "unreadable"
    \/ Age(key) > ttl

\* C7: with caching enabled, fetch_weather returns a cached entry aged 9
\* minutes (any age up to the 10 minutes of its kind) without a request,
\* and treats one aged 11 minutes (any older one) as absent and issues
\* exactly one request; load_from_cache returns None exactly when the entry
\* is missing, unreadable or older than the time to live of its kind, 10
\* minutes for current weather and 30 for a forecast.
C7_CacheTtl ==
    /\ [][LoadWeather => (cres'.val = Null <=> Expired(WeatherKey, WeatherTtl))]_vars
    /\ [][LoadForecast => (cres'.val = Null <=> Expired(ForecastKey, ForecastTtl))]_vars
    /\ [][(/\ CachedFetchWeather
           /\ ~opts'.no_cache
           /\ cache[WeatherKey].state = "file")
          => IF Age(WeatherKey) <= WeatherTtl
             THEN net' = <<>> /\ cres' = Ok(cache[WeatherKey].data)
             ELSE net' = <<"weather">>]_vars

(***************************************************************************)
(* Properties of a run of main                                             *)
(***************************************************************************)
Printed(line) == \E i \in DOMAIN out : out[i] = line
Count(line) == Cardinality({i \in DOMAIN out : out[i] = line})

\* The air-quality request or the one-call request of the run failed.
EnrichmentFetchFailed == enrich.air = "fetch_failed" \/ enrich.onecall = "fetch_failed"

\* The fields of the enrichment whose request failed, and of the one-call
\* step that is then never reached, are None in a snapshot.
FailedFieldsAbsent(snap) ==
    /\ enrich.air = "fetch_failed" =>
          /\ snap.air_quality_index = Null
          /\ snap.air_quality_components = Null
    /\ snap.uv_index = Null
    /\ snap.weather_alerts = Null

C9_TerminalErrorsAreReported ==
    /\ (/\ raised.at \in {"fetch_weather", "parse_weather_payload", "fetch_forecast"}
        /\ raised.err \in WeatherErrors)
          => /\ pc = "done"
             /\ status = "1"
             /\ Count("error") = 1
             /\ out[Len(out)] = "error"
    /\ status = "0" => (raised = NoRaise /\ Printed("report") /\ ~Printed("error"))

\* The forecast request is answered with an error after the report was
\* printed.
C9_Witness ==
    /\ pc = "done" /\ status = "1"
    /\ raised = [at |-> "fetch_forecast", err |-> "UpstreamError"]
    /\ out = <<"report", "error">>

(***************************************************************************)
(* Properties of check_for_api_error                                       *)
(***************************************************************************)
\* The code check_for_api_error reads: "cod", or the HTTP status code
ResponseCode == IF arg = Absent THEN I(http) ELSE arg

\* The code is a number or a text of digits; its value in tenths
IsNumber(code) ==
    \/ code.k \in {"int", "float", "bool"}
    \/ code.k = "str" /\ IntOfStr(code.s).st = "ok"
TenthsOf(code) ==
    CASE code.k = "float" -> code.n
      [] code.k = "str" -> 10 * IntOfStr(code.s).val.n
      [] OTHER -> 10 * code.n

\* The message UpstreamError carries
UpstreamMessage == IF Truthy(DictGet(msg)) THEN msg ELSE S(UnknownError)

\* C10: a code numerically different from 200 makes check_for_api_error
\* raise UpstreamError with the payload's message or the fallback, and
\* fetch_weather, fetch_forecast and fetch_onecall fail; a code int() cannot
\* convert raises too; a code numerically equal to 200 raises nothing.
C10_Non200IsUpstreamError ==
    LET code == ResponseCode
        checked == {"check_for_api_error", "fetch_weather", "fetch_forecast", "fetch_onecall"}
    IN  /\ (cop \in checked /\ IsNumber(code) /\ TenthsOf(code) # 2000) =>
              IF cop = "check_for_api_error"
              THEN cres = RaiseWith("UpstreamError", UpstreamMessage)
              ELSE cres.st = "raise"
        /\ (cop \in checked /\ PyInt(code).st = "raise") => cres.st = "raise"
        /\ (cop \in checked /\ IsNumber(code) /\ TenthsOf(code) = 2000) => cres.st = "ok"

(***************************************************************************)
(* Properties of the forecast formatters                                   *)
(***************************************************************************)
\* The calendar day of the i-th forecast item
DayOf(i) == forecast_items[i].timestamp.n \div DaySeconds
\* The items that are the first of their day
FirstSeen == {i \in DOMAIN forecast_items : \A j \in 1..(i - 1) : DayOf(j) # DayOf(i)}
\* The rows of the text that name a day
DayRowsAt == {r \in DOMAIN rows : \E t \in DOMAIN rows[r] : rows[r][t].t = "time"}
DayNamed(r) == (CHOOSE t \in DOMAIN rows[r] : rows[r][t].t = "time")
Rank(set, x) == Cardinality({y \in set : y <= x})
TemperaturesOfDay(day) ==
    Temperatures(SelectSeq(forecast_items, LAMBDA item : item.timestamp.n \div DaySeconds = day))

\* C11: the daily report of a non-empty item sequence has one section per
\* distinct calendar day, in first-seen order, cut to the first five days,
\* and the temperature row of a section holds the minimum, the maximum and
\* the mean of exactly the items of its day.
C11_DailyGrouping ==
    (cop = "format_daily_forecast" /\ forecast_items # <<>>) =>
        /\ Cardinality(DayRowsAt) =
              (IF Cardinality(FirstSeen) < 5 THEN Cardinality(FirstSeen) ELSE 5)
        /\ \A r \in DayRowsAt : \E i \in FirstSeen :
              /\ Rank(FirstSeen, i) = Rank(DayRowsAt, r)
              /\ rows[r][DayNamed(r)].n = DayOf(i) * DaySeconds
              /\ \E temps \in {TemperaturesOfDay(DayOf(i))} :
                    /\ rows[r + 2][2] = Num(".1f", PyMin(temps), 1)
                    /\ rows[r + 2][5] = Num(".1f", PyMax(temps), 1)
                    /\ rows[r + 2][8] = Num(".1f", PySum(temps), Len(temps))

\* Six items of six days, reported as five sections
C11_Witness ==
    /\ cop = "format_daily_forecast"
    /\ Cardinality(FirstSeen) = 6
    /\ Cardinality(DayRowsAt) = 5

(***************************************************************************)
(* Properties of the colour flag                                           *)
(***************************************************************************)
\* A row with its decoration markers taken out
Unmarked(row) == SelectSeq(row, LAMBDA token : token.t # "mark")
HasMark(row) == \E t \in DOMAIN row : row[t].t = "mark"

\* C12: without the colour flag the text of format_weather holds no
\* decoration marker in any row, and its rows are the rows of the coloured
\* text with the markers taken out.
C12_PlainTextHasNoMarkers ==
    (cop = "format_weather" /\ cres.st = "ok" /\ ~color) =>
        /\ \A r \in DOMAIN rows : ~HasMark(rows[r])
        /\ \E colored \in {format_weather(snapshot, TRUE)} :
              rows = [r \in DOMAIN colored |-> Unmarked(colored[r])]

(***************************************************************************)
(* Properties of the helpers of the report                                 *)
(***************************************************************************)
\* C13: for a humidity h of 0..100 and a width w the bar has floor(h*w/100)
\* filled cells and then w less that many unfilled ones, w cells in all; at
\* width 30 that is 0 and 30 for h = 0, 30 and 0 for h = 100, 15 and 15 for
\* h = 50.
C13_HumidityBarCells ==
    cop = "create_humidity_bar" =>
        /\ rows[1][2] = Repeat("filled", (arg.n * dflt.n) \div 100)
        /\ rows[1][3] = Repeat("unfilled", dflt.n - (arg.n * dflt.n) \div 100)
        /\ rows[1][2].n + rows[1][3].n = dflt.n
        /\ (dflt.n = 30 /\ arg.n = 0) => (rows[1][2].n = 0 /\ rows[1][3].n = 30)
        /\ (dflt.n = 30 /\ arg.n = 100) => (rows[1][2].n = 30 /\ rows[1][3].n = 0)
        /\ (dflt.n = 30 /\ arg.n = 50) => (rows[1][2].n = 15 /\ rows[1][3].n = 15)

\* C14: for an integer degree value d the compass label is the entry of the
\* 16-point rose at floor((d mod 360) / 22.5 + 0.5) mod 16, an index of
\* 0..15; 0 gives the north label, 180 the south label, and d + 360 gives
\* what d gives.
C14_WindCompass ==
    cop = "_format_wind_direction" =>
        /\ \E sector \in 0..16 :
              /\ 90 * sector <= 4 * (arg.n % 360) + 45
              /\ 4 * (arg.n % 360) + 45 < 90 * (sector + 1)
              /\ sector % 16 \in 0..15
              /\ cres.val = Text(Directions[(sector % 16) + 1])
        /\ arg.n = 0 => cres.val = Text("S")
        /\ arg.n = 180 => cres.val = Text("Yu")
        /\ cres.val = Text(_format_wind_direction(arg.n + 360))

\* 360 degrees give the north label
C14_Witness ==
    /\ cop = "_format_wind_direction"
    /\ arg = I(360)
    /\ cres.val = Text("S")

\* The UV index of the call, in tenths
UvTenths == IF arg.k = "float" THEN arg.n ELSE 10 * arg.n

\* C15: get_uv_label gives a UV value the label of the band [0,2], [3,5],
\* [6,7], [8,10], [11,inf) that holds it, and the "unknown" label to no
\* value that is not negative.
C15_UvLabels ==
    (cop = "get_uv_label" /\ arg.k \in {"int", "float"}) =>
        /\ (0 <= UvTenths /\ UvTenths <= 20) => cres.val.label = "Nizkiy"
        /\ (30 <= UvTenths /\ UvTenths <= 50) => cres.val.label = "Umerennyy"
        /\ (60 <= UvTenths /\ UvTenths <= 70) => cres.val.label = "Vysokiy"
        /\ (80 <= UvTenths /\ UvTenths <= 100) => cres.val.label = "Ochen vysokiy"
        /\ 110 <= UvTenths => cres.val.label = "Ekstremalnyy"
        /\ 0 <= UvTenths => cres.val # Unknown

\* The rows of the report that show the air quality index
AqiRows == {r \in DOMAIN rows : rows[r] # <<>> /\ rows[r][1].t = "key"
                                 /\ rows[r][1].s = <<"Kachestvo vozdukha">>}
\* The label the air quality index is said to have
AqiLabelOf(index) ==
    CASE index = 1 -> "Otlichnoe"
      [] index = 2 -> "Khoroshee"
      [] index = 3 -> "Umerennoe"
      [] index = 4 -> "Plokhoe"
      [] index = 5 -> "Ochen plokhoe"
      [] OTHER -> "Neizvestno"

\* C16: for an integer air quality index in the snapshot format_weather
\* does not raise and shows one air-quality row, with the label of the
\* index for 1..5 (five different labels) and the "unknown" label for any
\* other integer; without an index there is no such row.
C16_AqiLabel ==
    /\ (cop = "format_weather" /\ snapshot.air_quality_index.k = "int") =>
          /\ cres.st = "ok"
          /\ Cardinality(AqiRows) = 1
          /\ \A r \in AqiRows :
                \E t \in 2..Len(rows[r]) :
                    /\ rows[r][t - 1] = Text(" (")
                    /\ rows[r][t] = Text(AqiLabelOf(snapshot.air_quality_index.n))
    /\ (cop = "format_weather" /\ snapshot.air_quality_index = Null) =>
          (cres.st = "ok" /\ AqiRows = {})
    /\ \A i, j \in 1..5 : AqiLabelOf(i) = AqiLabelOf(j) => i = j

\* An index of 6 is shown with the "unknown" label
C16_Witness ==
    /\ cop = "format_weather" /\ cres.st = "ok"
    /\ snapshot.air_quality_index = I(6)
    /\ \E r \in AqiRows : \E t \in DOMAIN rows[r] : rows[r][t] = Text("Neizvestno")

(***************************************************************************)
(* Properties of the temperature chart                                     *)
(***************************************************************************)
\* The samples of the chart: the temperatures of the first eight items
Samples == [i \in 1..(IF Len(forecast_items) < 8 THEN Len(forecast_items) ELSE 8) |->
               forecast_items[i].temperature]
Lowest == PyMin(Samples)
Highest == PyMax(Samples)
\* The rows of the chart, 0 the top one, in which the column of a sample
\* holds a point
PointRows(column) == {line \in 0..9 : rows[line + 3][column + 2] = Text("*")}
\* 9 - floor(9 * (t - min) / range), range being 1 degree for equal samples
SaidRow(temp) ==
    9 - (9 * (temp - Lowest)) \div (IF Highest # Lowest THEN Highest - Lowest ELSE 10)

\* What is said of every chart: nothing below two items, else one column
\* for each of the first eight items, with one point, in the row said
ChartShape ==
    /\ Len(forecast_items) < 2 => rows = <<>>
    /\ Len(forecast_items) >= 2 =>
          /\ Len(rows) = 14
          /\ \A line \in 0..9 : Len(rows[line + 3]) = Len(Samples) + 2
          /\ \A column \in DOMAIN Samples : PointRows(column) = {SaidRow(Samples[column])}

WithoutWindAndClouds(p) == Normal([p EXCEPT !.windS = "absent", !.cloudsS = "absent"])
\* The payload with a container of another shape in place of one that is
\* no mapping
Reshaped(p) ==
    {Normal([p EXCEPT !.windS = wind, !.cloudsS = clouds]) :
        wind \in (IF p.windS = "dict" THEN {"dict"} ELSE BlockShapes \ {"dict"}),
        clouds \in (IF p.cloudsS = "dict" THEN {"dict"} ELSE BlockShapes \ {"dict"})}
\* A leaf that is present, not null, and that the conversion refuses
NotCoercible(leaf, Convert(_)) == leaf \notin {Absent, Null} /\ Convert(leaf).st = "raise"

\* C18: an absent, null or non-mapping "wind" or "clouds" container never
\* makes parse_weather_payload fail: the result is the one for any other
\* such shape, a snapshot then has wind_speed 0.0 and no wind_direction for
\* such a "wind" and cloudiness 0 for such a "clouds"; and a payload that
\* parses without the two containers fails with them only when "speed",
\* "deg" or "all" is present and cannot be converted.
C18_MalformedContainerIsDefault ==
    presult.st # "none" =>
        /\ \A p \in Reshaped(payload) : presult = parse_weather_payload(p, S(Moscow), Metric)
        /\ (presult.st = "ok" /\ payload.windS # "dict") =>
              /\ presult.val.wind_speed = F(0)
              /\ presult.val.wind_direction = Null
        /\ (presult.st = "ok" /\ payload.cloudsS # "dict") =>
              presult.val.cloudiness = I(0)
        /\ (/\ presult.st = "raise"
            /\ parse_weather_payload(WithoutWindAndClouds(payload), S(Moscow), Metric).st = "ok")
              => \/ NotCoercible(payload.speed, PyFloat)
                 \/ NotCoercible(payload.deg, PyInt)
                 \/ NotCoercible(payload.clouds_all, PyInt)

\* "wind" is a list and "clouds" is null, and the snapshot holds the defaults
C18_Witness ==
    /\ presult.st = "ok"
    /\ payload.windS = "list" /\ payload.cloudsS = "null"
    /\ presult.val.wind_speed = F(0)
    /\ presult.val.wind_direction = Null
    /\ presult.val.cloudiness = I(0)


(***************************************************************************)
(* Properties of the order of the requests                                 *)
(***************************************************************************)
Issued(endpoint) == \E i \in DOMAIN net : net[i] = endpoint
\* The place of a request in the order of a run
Place(endpoint) ==
    CASE endpoint = "weather" -> 1
      [] endpoint = "air" -> 2
      [] endpoint = "onecall" -> 3
      [] endpoint = "forecast" -> 4

\* The requests of the run so far are in the order of their places, and
\* only the forecast is asked for more than once
InOrder ==
    \A i, j \in DOMAIN net :
        i < j => /\ Place(net[i]) <= Place(net[j])
                 /\ net[i] = net[j] => net[i] = "forecast"

\* C19: the requests of a run are issued one at a time, in the order
\* current weather, air quality, one-call, forecast; air quality, one-call
\* and forecast only after the current weather was fetched and parsed,
\* one-call only after air quality, the forecast only after the enrichment
\* step is over (the report is printed); air quality and one-call only with
\* --extended, the forecast only with --forecast, --hourly or --chart.
C19_FetchOrder ==
    /\ [](/\ InOrder
          /\ (Issued("air") \/ Issued("onecall") \/ Issued("forecast")) => snapshot # Null
          /\ Issued("onecall") => (Issued("air") /\ enrich.air = "ok")
          /\ Issued("forecast") => (Printed("report") /\ pc \notin {"air", "onecall", "report"})
          /\ (Issued("air") \/ Issued("onecall")) => opts.extended
          /\ Issued("forecast") => (opts.forecast \/ opts.hourly \/ opts.chart))
    /\ [][\/ net' = net
          \/ \E endpoint \in {"weather", "air", "onecall", "forecast"} :
                net' = Append(net, endpoint)]_vars

\* A run with every flag and an empty cache asks for all four, the forecast
\* twice, and returns 0
C19_Witness ==
    /\ pc = "done" /\ status = "0"
    /\ net = <<"weather", "air", "onecall", "forecast", "forecast">>


(***************************************************************************)
(* Properties of the two merges                                            *)
(***************************************************************************)
AirFields == {"air_quality_index", "air_quality_components"}
OneCallFields == {"uv_index", "weather_alerts"}
\* Two snapshots differ in no field outside the given ones
SameBut(fields, before, after) ==
    /\ DOMAIN after = DOMAIN before
    /\ \A f \in DOMAIN before \ fields : after[f] = before[f]

\* The decoded bodies the two merges are handed, an empty "list" among them
AirBodies ==
    {r.body : r \in {a \in AirResponses : a.kind = "json"}}
        \cup {AirBody("dict", "empty", "dict", "absent", Absent, Absent),
              AirBody("dict", "list", "dict", "absent", Absent, Absent)}
OneCallBodies == {r.body : r \in {o \in OneCallResponses : o.kind = "json"}}
NoList(air) == air.bodyS = "dict" /\ air.listS \in {"absent", "empty"}

\* C20: the air-quality merge returns a snapshot that differs from its
\* input in air_quality_index and air_quality_components only, and the
\* input itself when the list is absent or empty; the one-call merge returns
\* one that differs in uv_index and weather_alerts only; the snapshot handed
\* in is not changed; and after air quality followed by one-call the
\* air-quality fields are those the first merge set.
C20_MergesKeepOtherFields ==
    /\ [](snapshot # Null =>
            /\ \A air \in AirBodies :
                  \E merged \in {add_air_quality_to_snapshot(snapshot, air)} :
                      /\ merged.st = "ok" => SameBut(AirFields, snapshot, merged.val)
                      /\ NoList(air) => merged = Ok(snapshot)
            /\ \A onecall \in OneCallBodies :
                  \E merged \in {add_uv_and_alerts_to_snapshot(snapshot, onecall)} :
                      merged.st = "ok" => SameBut(OneCallFields, snapshot, merged.val))
    /\ [][(pc = "air" /\ snapshot' # snapshot) =>
              /\ SameBut(AirFields, snapshot, snapshot')
              /\ shown' = shown /\ fetched' = fetched]_vars
    /\ [][(pc = "onecall" /\ snapshot' # snapshot) =>
              /\ SameBut(OneCallFields, snapshot, snapshot')
              /\ shown' = shown /\ fetched' = fetched]_vars

\* Both requests were answered: the report shows the index and the
\* components of the first merge next to the UV index and the alert of the
\* second, and the temperature of the parse
C20_Witness ==
    /\ pc = "done" /\ status = "0"
    /\ enrich = [air |-> "ok", onecall |-> "ok"]
    /\ shown.air_quality_index = I(2)
    /\ shown.air_quality_components = Components(F(125), F(203))
    /\ shown.uv_index = F(52)
    /\ shown.weather_alerts = Alerts(<<Storm>>)
    /\ shown.temperature = F(150)


(***************************************************************************)
(* Properties of the UV index and the alerts                               *)
(***************************************************************************)
\* The one-call bodies the merge is handed, a null "alerts" among them
AlertBodies ==
    OneCallBodies \cup {OneCallBody(Absent, Absent, "dict", Null, "null", <<>>),
                        OneCallBody(Absent, Absent, "absent", Absent, "list", <<Storm, Storm>>)}
\* payload["current"]["uvi"], None when either is missing
SaidUv(onecall) ==
    IF onecall.currentS = "dict" /\ onecall.uvi # Absent THEN onecall.uvi ELSE Null
\* The payload holds a list of alerts that is not empty
HasAlerts(onecall) == onecall.alertsS = "list" /\ Len(onecall.alerts) > 0
\* The report holds the header of the alerts section
AlertSection(report) ==
    \E r \in DOMAIN report : \E t \in DOMAIN report[r] :
        report[r][t] = Text("POGODNYE PREDUPREZHDENIYA")

\* C21: the one-call merge sets uv_index to the payload's current.uvi (None
\* when missing) and weather_alerts to the "alerts" list, None when the list
\* is missing or empty; no snapshot a run builds holds an empty sequence of
\* alerts; and the report of a snapshot has the alerts section exactly when
\* its weather_alerts is not None.
C21_AlertsNeverEmpty ==
    /\ snapshot # Null =>
          /\ \A onecall \in AlertBodies :
                \E merged \in {add_uv_and_alerts_to_snapshot(snapshot, onecall)} :
                    merged.st = "ok" =>
                        /\ merged.val.uv_index = SaidUv(onecall)
                        /\ merged.val.weather_alerts =
                              (IF HasAlerts(onecall) THEN Alerts(onecall.alerts) ELSE Null)
          /\ snapshot.weather_alerts # Alerts(<<>>)
          /\ enrich.onecall # "ok" => snapshot.weather_alerts = Null
    /\ shown # Null =>
          /\ shown.weather_alerts # Alerts(<<>>)
          /\ \A with_color \in BOOLEAN :
                AlertSection(format_weather(shown, with_color)) <=> shown.weather_alerts # Null

\* The one-call answer held an empty list of alerts and no "uvi": the report
\* is printed from a snapshot without alerts and without a UV index
C21_Witness ==
    /\ pc = "done" /\ status = "0"
    /\ enrich.onecall = "ok"
    /\ shown.weather_alerts = Null
    /\ shown.uv_index = Null
    /\ ~AlertSection(format_weather(shown, FALSE))


(***************************************************************************)
(* Properties of the description of a day                                  *)
(***************************************************************************)
DescriptionsOfDay(day) ==
    Descriptions(SelectSeq(forecast_items, LAMBDA item : item.timestamp.n \div DaySeconds = day))
\* The description that occurs most often, the one met first among those
\* that occur as often
StableMode(descriptions) ==
    descriptions[CHOOSE i \in DOMAIN descriptions :
                    /\ \A j \in DOMAIN descriptions :
                          CountOf(descriptions, descriptions[j])
                              <= CountOf(descriptions, descriptions[i])
                    /\ \A j \in 1..(i - 1) :
                          CountOf(descriptions, descriptions[j])
                              < CountOf(descriptions, descriptions[i])]

\* C22: the section of a day in the daily report names the description that
\* occurs most often among the items of the day and, of several that occur
\* as often, the one met first in the order of the items.
C22_StableMode ==
    (cop = "format_daily_forecast" /\ forecast_items # <<>>) =>
        \A r \in DayRowsAt :
            rows[r + 1] = <<Text("  "), Chars(StableMode(DescriptionsOfDay(rows[r][DayNamed(r)].n \div DaySeconds)))>>


(***************************************************************************)
(* Properties of what the cache holds                                      *)
(***************************************************************************)
\* A payload whose "cod" is a number other than 200, or no number at all
ErrorPayload(p) == p.cod # Absent /\ ~(IsNumber(p.cod) /\ TenthsOf(p.cod) = 2000)
CacheKeys == {WeatherKey, ForecastKey}

\* C23: fetch_weather and fetch_forecast store a payload only after it was
\* decoded and passed the check, so that no cache file ever holds a payload
\* with a code other than 200 and no cached read returns one; and with
\* use_cache false the cache is not read (the request is always issued) and
\* not written.
C23_CacheHoldsCheckedPayloads ==
    /\ [](\A key \in CacheKeys :
             cache[key].state = "file" => ~ErrorPayload(cache[key].data))
    /\ [][calls' = calls + 1 =>
             /\ (cres'.st = "raise" \/ opts'.no_cache) => cache' = cache
             /\ (cres'.st = "ok" /\ net' = <<>>) => ~ErrorPayload(cres'.val)
             /\ opts'.no_cache => net' # <<>>]_vars


(***************************************************************************)
(* Properties of the cache key                                             *)
(***************************************************************************)
KeyRequests ==
    {<<kind, city, units, language>> :
        kind \in KeyKinds, city \in KeyCities, units \in KeyUnits, language \in KeyLanguages}
KeyOfRequest(r) == CacheKey(r[1], r[2], r[3], r[4])
\* The kind of payload the function called last fetches
KindFetched == IF cop = "fetch_weather" THEN "weather" ELSE "forecast"

\* C24: two requests that differ in the kind, the city, the unit system or
\* the language have different cache keys, and a fetch returns a payload of
\* its own kind, city, unit system and language, from the cache or not.
C24_CacheKeyInjective ==
    /\ \A r1, r2 \in KeyRequests : r1 # r2 => KeyOfRequest(r1) # KeyOfRequest(r2)
    /\ (cop \in {"fetch_weather", "fetch_forecast"} /\ cres.st = "ok") =>
          cres.val = AnswerTo(KindFetched, opts.city, opts.units, opts.lang)


(***************************************************************************)
(* Properties of the coordinates                                           *)
(***************************************************************************)
\* The current-weather payload holds a latitude and a longitude
HasCoordinates ==
    /\ fetched.coordS = "dict"
    /\ fetched.lat \notin {Absent, Null}
    /\ fetched.lon \notin {Absent, Null}
\* The run was given --extended, built its snapshot and left the air-quality step
PastAirQuality == opts.extended /\ snapshot # Null /\ pc # "air"

\* C25: in a run with --extended whose payload holds a latitude and a
\* longitude, whatever their values, the air-quality request is issued, and
\* the one-call request after it when the air-quality step succeeds; the
\* enrichment is skipped only when a coordinate is missing.
C25_CoordinatesEnrich ==
    PastAirQuality =>
        /\ HasCoordinates => Issued("air")
        /\ (enrich.air = "ok" /\ pc # "onecall") => Issued("onecall")
        /\ enrich.air = "skipped" => ~HasCoordinates

====
